---------------------------- MODULE Spec2Model ----------------------------
(***************************************************************************)
(* Model of the neutrino-notebooks cell compiler (neutrino_cli/parser) and *)
(* of the ConnectionManager runtime it emits.                              *)
(*                                                                         *)
(* Python strings are sequences of one-character strings, so that split,   *)
(* strip, replace and int() are computed the way the code computes them.   *)
(***************************************************************************)
EXTENDS Integers, Sequences, FiniteSets, TLC

VARIABLES
    s,                \* split_types: the argument
    split_result,     \* split_types: what the call returned or raised
    http_args,        \* HttpCell: the constructor's arguments
    http_out,         \* HttpCell: what str(HttpCell(...)) returned or raised
    sched_decl,       \* parse_scheduled_cell: declaration_lines
    sched_body,       \* parse_scheduled_cell: the cell's executable body
    sched_cell,       \* parse_scheduled_cell: what the call returned
    sched_out,        \* ScheduledCell: what str(cell) returned or raised
    ScheduledCell_counter,  \* ScheduledCell._counter (class attribute)
    notebook,         \* parse_notebook_cells: notebook['cells']
    parsed_cells,     \* parse_notebook_cells: the local list of the last call
    sorted_cells,     \* parse_notebook_cells: the sorted list of the last call
    history,          \* the compilations made so far: counter at the start, outcome
    cell_source,      \* parse_cell: the cell (its source lines, what yaml and ast find)
    cell_clean,       \* clean_source: what the call on the cell's lines returned
    cell_parsed,      \* parse_cell: the path taken and what the call returned or raised
    room_connections, \* ConnectionManager.room_connections
    ws_state,         \* each WebSocket's state: connecting, connected or closed
    manager_call,     \* the last call on the manager: its outcome and deliveries
    handler,          \* a generated WebSocket handler: its cell's options and locals
    peer,             \* the handler's client: frames in flight, frames sent, hung up
    iteration         \* a send loop suspended in an awaited send_text

split_vars == <<s, split_result>>
http_vars == <<http_args, http_out>>
sched_vars == <<sched_decl, sched_body, sched_cell, sched_out>>
cell_vars == <<cell_source, cell_clean, cell_parsed>>
compile_vars == <<notebook, parsed_cells, sorted_cells, history, cell_vars>>
manager_vars == <<room_connections, ws_state, manager_call>>
task_vars == <<handler, peer, iteration>>
vars == <<s, split_result, http_args, http_out, sched_decl, sched_body,
          sched_cell, sched_out, ScheduledCell_counter, notebook, parsed_cells,
          sorted_cells, history, cell_source, cell_clean, cell_parsed,
          room_connections, ws_state, manager_call, handler, peer, iteration>>

(***************************************************************************)
(* Bounds                                                                  *)
(***************************************************************************)
MaxSplitLen == 5
MaxFieldLen == 5
MaxPieces == 4
MaxIntervalLen == 4
MaxCronFields == 6
MaxCells == 3
MaxRuns == 3
MaxConnections == 2
MaxLines == 3
MaxCleanLines == 4
MaxFrames == 2
MaxItems == 3
MaxPerCall == 2

(***************************************************************************)
(* Python str helpers                                                      *)
(***************************************************************************)
StrsUpTo(alphabet, n) == UNION {[1..k -> alphabet] : k \in 0..n}

\* str.isspace of one character (the model's alphabets hold " " only)
IsSpace(c) == c = " "

RECURSIVE lstrip(_)
lstrip(x) == IF x # <<>> /\ IsSpace(Head(x)) THEN lstrip(Tail(x)) ELSE x

RECURSIVE rstrip(_)
rstrip(x) ==
    IF x # <<>> /\ IsSpace(x[Len(x)]) THEN rstrip(SubSeq(x, 1, Len(x) - 1)) ELSE x

\* str.strip()
strip(x) == rstrip(lstrip(x))

\* x.startswith(p)
StartsWith(x, p) == Len(x) >= Len(p) /\ SubSeq(x, 1, Len(p)) = p

\* c in x
Contains(x, c) == \E i \in 1..Len(x) : x[i] = c

\* the one element of a singleton: The({e(x) : x \in {v}}) is e with x bound
\* to the value of v, which is then computed once however often e uses it
The(S) == CHOOSE x \in S : TRUE

\* a call's outcome: not made yet, returned a value, or raised an exception
Pending == [exc |-> "pending", value |-> <<>>]
Returned(v) == [exc |-> "none", value |-> v]
Raised(e) == [exc |-> e, value |-> <<>>]

(***************************************************************************)
(* parser.split_types                                                      *)
(***************************************************************************)
SplitAlphabet == {"a", " ", ",", "[", "]", "{", "}"}

\* the mutant of AtTopLevel: the nesting stack is ignored
AtTopLevelIgnoringStack(stack) == TRUE

\* "if not stack" (line 100)
AtTopLevel(stack) == stack = <<>>

\* the for loop of split_types from index i on (i is 1-based, start is the
\* 1-based index of the first character of the open segment)
RECURSIVE split_types_loop(_, _, _, _, _)
split_types_loop(str, i, stack, start, result) ==
    IF i > Len(str)
    THEN Returned(Append(result, strip(SubSeq(str, start, Len(str)))))
    ELSE LET c == str[i] IN
         IF c \in {"[", "{"}
         THEN split_types_loop(str, i + 1, Append(stack, c), start, result)
         ELSE IF c \in {"]", "}"}
         THEN IF stack = <<>>
              THEN Raised("IndexError")
              ELSE split_types_loop(str, i + 1, SubSeq(stack, 1, Len(stack) - 1),
                                    start, result)
         ELSE IF c = "," /\ AtTopLevel(stack)
         THEN split_types_loop(str, i + 1, stack, i + 1,
                               Append(result, strip(SubSeq(str, start, i - 1))))
         ELSE split_types_loop(str, i + 1, stack, start, result)

split_types(str) == split_types_loop(str, 1, <<>>, 1, <<>>)

SplitInit ==
    /\ s \in StrsUpTo(SplitAlphabet, MaxSplitLen)
    /\ split_result = Pending

CallSplitTypes ==
    /\ split_result = Pending
    /\ split_result' = split_types(s)
    /\ UNCHANGED <<task_vars, s, http_vars, sched_vars, ScheduledCell_counter, compile_vars,
                   manager_vars>>

SplitIdle == s = <<>> /\ split_result = Pending

(***************************************************************************)
(* C4                                                                      *)
(***************************************************************************)
\* brackets and braces of str properly nested, each closed by its own kind
RECURSIVE BalancedFrom(_, _, _)
BalancedFrom(str, i, open) ==
    IF i > Len(str) THEN open = <<>>
    ELSE IF str[i] \in {"[", "{"} THEN BalancedFrom(str, i + 1, <<str[i]>> \o open)
    ELSE IF str[i] \in {"]", "}"}
    THEN /\ open # <<>>
         /\ Head(open) = (IF str[i] = "]" THEN "[" ELSE "{")
         /\ BalancedFrom(str, i + 1, Tail(open))
    ELSE BalancedFrom(str, i + 1, open)

Balanced(str) == BalancedFrom(str, 1, <<>>)

\* nesting depth at which character i of str sits
DepthAt(str, i) ==
    Cardinality({j \in 1..(i - 1) : str[j] \in {"[", "{"}})
  - Cardinality({j \in 1..(i - 1) : str[j] \in {"]", "}"}})

TopLevelCommas(str) == {i \in 1..Len(str) : str[i] = "," /\ DepthAt(str, i) = 0}

\* the k-th smallest element of a set of integers
NthOf(S, k) == CHOOSE x \in S : Cardinality({y \in S : y < x}) = k - 1

\* x without its leading and trailing blanks
Trimmed(x) ==
    LET solid == {i \in 1..Len(x) : x[i] # " "} IN
    IF solid = {} THEN <<>>
    ELSE SubSeq(x, CHOOSE i \in solid : \A j \in solid : i <= j,
                   CHOOSE i \in solid : \A j \in solid : j <= i)

TopLevelSegments(str) ==
    LET cuts == {0} \cup TopLevelCommas(str) \cup {Len(str) + 1} IN
    [k \in 1..(Cardinality(cuts) - 1) |->
        Trimmed(SubSeq(str, NthOf(cuts, k) + 1, NthOf(cuts, k + 1) - 1))]

\* C4: for a balanced field-spec string, split_types returns exactly the
\* trimmed segments between the depth-0 commas, in order, so no comma inside
\* a bracketed or braced span is a split point.
C4_SplitTopLevel ==
    (split_result # Pending /\ Balanced(s)) =>
        /\ split_result.exc = "none"
        /\ split_result.value = TopLevelSegments(s)

\* a nested comma kept and a top-level comma split, as in "[a,],"
C4_Witness ==
    /\ split_result.exc = "none"
    /\ Balanced(s)
    /\ \E i \in 1..Len(s) : s[i] = "," /\ DepthAt(s, i) > 0
    /\ TopLevelCommas(s) # {}
    /\ Len(split_result.value) = 2

(***************************************************************************)
(* More Python str helpers                                                 *)
(***************************************************************************)
\* str.split(sep) for a one-character sep: always at least one part
RECURSIVE split(_, _)
split(x, sep) ==
    IF ~Contains(x, sep) THEN <<x>>
    ELSE LET i == CHOOSE k \in 1..Len(x) :
                      x[k] = sep /\ \A j \in 1..(k - 1) : x[j] # sep
         IN <<SubSeq(x, 1, i - 1)>> \o split(SubSeq(x, i + 1, Len(x)), sep)

\* str.replace(c, '') for a one-character c
remove(x, c) == SelectSeq(x, LAMBDA ch : ch # c)

\* ', '.join(parts) and the like
RECURSIVE join(_, _)
join(parts, sep) ==
    IF parts = <<>> THEN <<>>
    ELSE IF Len(parts) = 1 THEN parts[1]
    ELSE parts[1] \o sep \o join(Tail(parts), sep)

\* p occurs in x at position i
IsSubAt(x, p, i) == i + Len(p) - 1 <= Len(x) /\ SubSeq(x, i, i + Len(p) - 1) = p

\* p in x, for a non-empty p
HasSub(x, p) == \E i \in 1..Len(x) : IsSubAt(x, p, i)

\* x.replace(p, ''): the occurrences of p removed, left to right
RECURSIVE replace_sub(_, _)
replace_sub(x, p) ==
    IF x = <<>> THEN <<>>
    ELSE IF IsSubAt(x, p, 1) THEN replace_sub(SubSeq(x, Len(p) + 1, Len(x)), p)
    ELSE <<Head(x)>> \o replace_sub(Tail(x), p)

\* str.lower() of one character and of a str (the verbs' letters)
LowerChar(c) ==
    CASE c = "A" -> "a" [] c = "C" -> "c" [] c = "D" -> "d" [] c = "E" -> "e"
      [] c = "G" -> "g" [] c = "H" -> "h" [] c = "L" -> "l" [] c = "O" -> "o"
      [] c = "P" -> "p" [] c = "S" -> "s" [] c = "T" -> "t" [] c = "U" -> "u"
      [] OTHER -> c

lower(x) == [k \in 1..Len(x) |-> LowerChar(x[k])]

GET == <<"G", "E", "T">>
POST == <<"P", "O", "S", "T">>
PUT == <<"P", "U", "T">>
DELETE == <<"D", "E", "L", "E", "T", "E">>
PATCH == <<"P", "A", "T", "C", "H">>

\* [\w]: the word characters of the model's alphabets
IsWord(c) == c \in {"a", "b", "i", "d", "n", "t", "u"}

\* Python values that may be None, a str or a list of str
PyNone == [t |-> "none", v |-> <<>>]
PyStr(x) == [t |-> "str", v |-> x]
PyList(xs) == [t |-> "list", v |-> xs]

\* a cell's executable body as the ast helpers see it: whether a (possibly
\* async) function definition is found in it and under which name
FuncDef(name) == [kind |-> "def", name |-> name]
AsyncFuncDef(name) == [kind |-> "asyncdef", name |-> name]
Statements == [kind |-> "stmts", name |-> ""]
\* no source lines at all, and source text that ast.parse rejects
EmptyBody == [kind |-> "empty", name |-> ""]
InvalidBody == [kind |-> "invalid", name |-> ""]

\* "\n".join(source_lines).strip() is not ''
BodyTruthy(code) == code.kind # "empty"

(***************************************************************************)
(* util.ast                                                                *)
(***************************************************************************)
\* the function's name, or "" for Python's None
get_function_name_from_ast(code) ==
    IF code.kind \in {"def", "asyncdef"} THEN code.name ELSE ""

is_async_function(code) == code.kind = "asyncdef"

(***************************************************************************)
(* parser.cells.http_cell.HttpCell                                         *)
(***************************************************************************)
\* HttpCell._parse_fields
HttpCell_parse_fields(fields) ==
    IF fields.t = "list" THEN fields.v
    ELSE IF fields.t = "str" /\ fields.v # <<>> THEN split(fields.v, ",")
    ELSE <<>>

\* HttpCell.__init__ (the argument cross-check only prints warnings)
HttpCell(args) ==
    [http |-> args.http, endpoint |-> args.endpoint,
     body |-> HttpCell_parse_fields(args.body),
     resp |-> HttpCell_parse_fields(args.resp),
     query |-> HttpCell_parse_fields(args.query),
     headers |-> HttpCell_parse_fields(args.headers),
     func_body |-> args.func_body]

UnionOpen == <<"U", "n", "i", "o", "n", "[">>
NoneClose == <<",", " ", "N", "o", "n", "e", "]">>
AnyType == <<"A", "n", "y">>
Indent == <<" ", " ", " ", " ">>

\* HttpCell._field_to_py_str: one line of a pydantic model
HttpCell_field_to_py_str(field) ==
    LET parts == split(field, ":") IN
    IF Contains(field, ":") /\ Len(parts) # 2 THEN Raised("ValueError")
    ELSE LET name == IF Contains(field, ":") THEN parts[1] ELSE strip(field)
             type_ == IF Contains(field, ":") THEN parts[2] ELSE AnyType
             is_optional == Contains(type_, "?")
             clean == strip(remove(remove(type_, "?"), "!"))
         IN Returned(Indent \o strip(name) \o <<":", " ">> \o
                     (IF is_optional THEN UnionOpen \o clean \o NoneClose
                      ELSE clean))

\* the (name, type) pairs re.findall(r"/{([\w]+)}", endpoint) yields from
\* position i on: leftmost, non-overlapping, the name taken greedily
RECURSIVE findall_url_params(_, _)
findall_url_params(e, i) ==
    IF i > Len(e) THEN <<>>
    ELSE LET stop == CHOOSE k \in (i + 2)..(Len(e) + 1) :
                         /\ \A j \in (i + 2)..(k - 1) : IsWord(e[j])
                         /\ (k = Len(e) + 1 \/ ~IsWord(e[k]))
         IN IF /\ e[i] = "/"
               /\ i + 1 <= Len(e) /\ e[i + 1] = "{"
               /\ stop > i + 2
               /\ stop <= Len(e) /\ e[stop] = "}"
            THEN <<SubSeq(e, i + 2, stop - 1)>> \o findall_url_params(e, stop + 1)
            ELSE findall_url_params(e, i + 1)

StrType == <<"s", "t", "r">>

\* HttpCell._extract_url_params
HttpCell_extract_url_params(cell) ==
    LET names == findall_url_params(cell.endpoint, 1) IN
    [k \in 1..Len(names) |-> <<names[k], StrType>>]

\* the first exception a sequence of outcomes holds, or "none"
FirstExc(outs) ==
    IF \A k \in 1..Len(outs) : outs[k].exc = "none" THEN "none"
    ELSE outs[CHOOSE k \in 1..Len(outs) :
                  outs[k].exc # "none" /\ \A j \in 1..(k - 1) : outs[j].exc = "none"].exc

\* HttpCell._generate_pydantic_model: the class name and its field lines
HttpCell_generate_pydantic_model(fields, class_name) ==
    LET lines == [k \in 1..Len(fields) |-> HttpCell_field_to_py_str(fields[k])] IN
    IF FirstExc(lines) # "none" THEN Raised(FirstExc(lines))
    ELSE Returned([class_name |-> class_name,
                   field_lines |-> [k \in 1..Len(lines) |-> lines[k].value]])

\* one query field as a handler parameter (lines 118-119):
\* name, type_ = q.split(':') and then f"{name}: {type_}"
HttpCell_query_param(q) ==
    LET parts == split(q, ":") IN
    IF Len(parts) # 2 THEN Raised("ValueError")
    ELSE Returned(parts[1] \o <<":", " ">> \o parts[2])

BodyParam == <<"b", "o", "d", "y">>

\* HttpCell.__str__: the pydantic models, the route and the handler's
\* parameters; the handler's fixed try/except lines are not modelled
HttpCell_str(cell) ==
    IF cell.http = <<>> \/ cell.endpoint = <<>>
    THEN Returned([comment |-> "# Missing HTTP method or endpoint."])
    ELSE IF cell.func_body.kind = "invalid" THEN Raised("SyntaxError")
    ELSE
    LET func_name == get_function_name_from_ast(cell.func_body)
        model_names == <<<<func_name, "RequestBody">>, <<func_name, "ResponseModel">>>>
        declared == SelectSeq(<<1, 2>>,
                        LAMBDA k : (IF k = 1 THEN cell.body ELSE cell.resp) # <<>>)
        models == [k \in 1..Len(declared) |->
                      HttpCell_generate_pydantic_model(
                          IF declared[k] = 1 THEN cell.body ELSE cell.resp,
                          model_names[declared[k]])]
        url_params == HttpCell_extract_url_params(cell)
        url_strs == [k \in 1..Len(url_params) |->
                        [kind |-> "url", text |-> url_params[k][1] \o <<":", " ">>
                                                    \o url_params[k][2]]]
        body_strs == IF cell.body # <<>>
                     THEN <<[kind |-> "body", text |-> BodyParam]>> ELSE <<>>
        query_outs == [k \in 1..Len(cell.query) |-> HttpCell_query_param(cell.query[k])]
        query_strs == [k \in 1..Len(cell.query) |->
                          [kind |-> "query", text |-> query_outs[k].value]]
    IN IF FirstExc(models) # "none" THEN Raised(FirstExc(models))
       ELSE IF FirstExc(query_outs) # "none" THEN Raised(FirstExc(query_outs))
       ELSE Returned([models |-> [k \in 1..Len(models) |-> models[k].value],
                      route |-> <<lower(cell.http), cell.endpoint>>,
                      func_name |-> func_name,
                      func_params |-> url_strs \o body_strs \o query_strs,
                      is_async |-> is_async_function(cell.func_body),
                      func_body |-> cell.func_body])

\* the arguments the model constructs HttpCells from
FieldAlphabet == {"a", "t", ":", " ", "?", "!"}
EndpointPieces == {<<"/">>, <<"u">>, <<"-">>, <<"/", "{", "i", "d", "}">>,
                   <<"{", "n", "}">>}
\* path templates: a "/" followed by up to MaxPieces pieces
Endpoints == {<<"/">> \o join(ps, <<>>) : ps \in StrsUpTo(EndpointPieces, MaxPieces)}
NameStr == <<"n", ":", "s", "t", "r">>
IdInt == <<"i", "d", ":", "i", "n", "t">>
QueryChoices == {PyNone, PyList(<<NameStr>>), PyList(<<NameStr, IdInt>>),
                 PyList(<<IdInt, NameStr>>), PyStr(NameStr \o <<",">> \o IdInt)}
BodyChoices == {PyNone, PyList(<<>>), PyList(<<IdInt>>)}
UsersEndpoint == <<"/", "u">>

HttpArgs(endpoint, body, resp, query) ==
    [http |-> GET, endpoint |-> endpoint, body |-> body, resp |-> resp,
     query |-> query, headers |-> PyNone, func_body |-> FuncDef("f")]

\* one field in one of the three sections, or a path template with body and
\* query declarations
HttpInit ==
    /\ \/ \E f \in StrsUpTo(FieldAlphabet, MaxFieldLen) :
             http_args \in {HttpArgs(UsersEndpoint, PyList(<<f>>), PyNone, PyNone),
                            HttpArgs(UsersEndpoint, PyNone, PyList(<<f>>), PyNone),
                            HttpArgs(UsersEndpoint, PyNone, PyNone, PyList(<<f>>))}
       \/ \E e \in Endpoints, b \in BodyChoices, q \in QueryChoices :
             http_args = HttpArgs(e, b, PyNone, q)
    /\ http_out = Pending

HttpIdle == http_args = HttpArgs(<<>>, PyNone, PyNone, PyNone) /\ http_out = Pending

RenderHttpCell ==
    /\ http_out = Pending
    /\ http_out' = HttpCell_str(HttpCell(http_args))
    /\ UNCHANGED <<task_vars, http_args, split_vars, sched_vars, ScheduledCell_counter,
                   compile_vars, manager_vars>>

(***************************************************************************)
(* parser.cells.scheduled_cell.ScheduledCell                               *)
(***************************************************************************)
DigitValue(c) ==
    CASE c = "0" -> 0 [] c = "1" -> 1 [] c = "2" -> 2 [] c = "3" -> 3 [] c = "4" -> 4
      [] c = "5" -> 5 [] c = "6" -> 6 [] c = "7" -> 7 [] c = "8" -> 8 [] c = "9" -> 9

IsDigit(c) == c \in {"0", "1", "2", "3", "4", "5", "6", "7", "8", "9"}

RECURSIVE DecimalValue(_)
DecimalValue(ds) ==
    IF ds = <<>> THEN 0
    ELSE 10 * DecimalValue(SubSeq(ds, 1, Len(ds) - 1)) + DigitValue(ds[Len(ds)])

\* int(x): blanks around the numeral are skipped, one sign is allowed, the
\* rest must be one or more digits
int(x) ==
    LET y == strip(x)
        signed == y # <<>> /\ y[1] \in {"+", "-"}
        ds == IF signed THEN Tail(y) ELSE y
    IN IF ds = <<>> \/ \E k \in 1..Len(ds) : ~IsDigit(ds[k])
       THEN Raised("ValueError")
       ELSE Returned(IF signed /\ y[1] = "-" THEN 0 - DecimalValue(ds)
                     ELSE DecimalValue(ds))

\* the multiplier _parse_interval applies for a unit character
UnitSeconds(unit) ==
    IF unit = "s" THEN 1 ELSE IF unit = "m" THEN 60 ELSE IF unit = "h" THEN 3600 ELSE 1

\* ScheduledCell._parse_interval (interval is never empty here); warned
\* tells whether the unsupported-unit warning was printed
ScheduledCell_parse_interval(interval) ==
    LET unit == interval[Len(interval)]
        value == int(SubSeq(interval, 1, Len(interval) - 1))
    IN IF value.exc # "none" THEN [exc |-> value.exc, value |-> 0, warned |-> FALSE]
       ELSE [exc |-> "none", value |-> value.value * UnitSeconds(unit),
             warned |-> unit \notin {"s", "m", "h"}]

\* a Python value is truthy: neither None nor ''
Truthy(x) == x.t # "none" /\ x.v # <<>>

CronKeys == <<"second", "minute", "hour", "day", "month", "day_of_week">>

\* the mutant of CronFieldAt: minute and hour swapped
CronFieldAtSwapped(cron_fields, k) ==
    cron_fields[IF k = 2 THEN 3 ELSE IF k = 3 THEN 2 ELSE k]

\* cron_fields[k - 1] of lines 29-34
CronFieldAt(cron_fields, k) == cron_fields[k]

\* the mutant of CronIndexError: the IndexError is not caught
CronIndexErrorUncaught(comment) == Raised("IndexError")

\* the except IndexError branch (lines 39-41)
CronIndexError(comment) == Returned(<<[line |-> "comment", text |-> comment]>>)

\* the name a rendering uses: the function's own, or generated_func_<n>
OwnName(name) == [text |-> name, n |-> -1]

\* the name every synthesized wrapper would get without the counter
C23_FixedName(n) == [text |-> "generated_func_", n |-> 0]

GeneratedName(n) == [text |-> "generated_func_", n |-> n]

\* ScheduledCell.__str__ with ScheduledCell._counter = counter: the outcome
\* and the counter afterwards
ScheduledCell_str(cell, counter) ==
    IF cell.func_body.kind = "invalid"
    THEN [out |-> Raised("SyntaxError"), counter |-> counter]
    ELSE
    LET found == get_function_name_from_ast(cell.func_body)
        is_already_function == found # ""
        func_name == IF found = "" THEN GeneratedName(counter) ELSE OwnName(found)
        counter_after == IF found = "" THEN counter + 1 ELSE counter
        cron_fields == split(cell.cron.v, " ")
        seconds == ScheduledCell_parse_interval(cell.interval.v)
        wrapper == IF is_already_function THEN <<>>
                   ELSE <<[line |-> "def", name |-> func_name]>>
        body == <<[line |-> "body", indent |-> 4, code |-> cell.func_body]>>
    IN IF Truthy(cell.cron)
       THEN IF Len(cron_fields) < 6
            THEN [out |-> CronIndexError("# Invalid cron format"),
                  counter |-> counter_after]
            ELSE [out |-> Returned(
                      <<[line |-> "decorator", trigger |-> "cron", name |-> func_name,
                         kwargs |-> [k \in 1..6 |-> <<CronKeys[k],
                                                      CronFieldAt(cron_fields, k)>>]]>>
                      \o wrapper \o body),
                  counter |-> counter_after]
       ELSE IF Truthy(cell.interval)
       THEN IF seconds.exc # "none"
            THEN [out |-> Raised(seconds.exc), counter |-> counter_after]
            ELSE [out |-> Returned(
                      <<[line |-> "decorator", trigger |-> "interval", name |-> func_name,
                         seconds |-> seconds.value, warned |-> seconds.warned]>>
                      \o wrapper \o body),
                  counter |-> counter_after]
       ELSE [out |-> Returned(wrapper \o body), counter |-> counter_after]

(***************************************************************************)
(* parser.parse_scheduled_cell                                             *)
(***************************************************************************)
ScheduleDirective == <<"@", "S", "C", "H", "E", "D", "U", "L", "E">>
CronKey == <<"c", "r", "o", "n">>
IntervalKey == <<"i", "n", "t", "e", "r", "v", "a", "l">>

\* line.split(':', 1) with both halves stripped
KeyValue(line) ==
    LET i == CHOOSE k \in 1..Len(line) :
                 line[k] = ":" /\ \A j \in 1..(k - 1) : line[j] # ":"
    IN <<strip(SubSeq(line, 1, i - 1)), strip(SubSeq(line, i + 1, Len(line)))>>

\* the value the for loop of lines 200-208 leaves for key: that of the last
\* line carrying it, or None
RECURSIVE LastValueOf(_, _)
LastValueOf(lines, key) ==
    IF lines = <<>> THEN PyNone
    ELSE LET last == lines[Len(lines)] IN
         IF Contains(last, ":") /\ KeyValue(last)[1] = key
         THEN PyStr(KeyValue(last)[2])
         ELSE LastValueOf(SubSeq(lines, 1, Len(lines) - 1), key)

\* what parse_scheduled_cell returned: nothing yet, None, or a ScheduledCell
Unparsed == [state |-> "unparsed", func_body |-> Statements, cron |-> PyNone,
             interval |-> PyNone]
NoCell == [state |-> "none", func_body |-> Statements, cron |-> PyNone,
           interval |-> PyNone]

\* parse_scheduled_cell: the ScheduledCell, or NoCell for None
parse_scheduled_cell(declaration_lines, func_body) ==
    LET lines == IF strip(declaration_lines[1]) = ScheduleDirective
                 THEN Tail(declaration_lines) ELSE declaration_lines
        cron == LastValueOf(lines, CronKey)
        interval == LastValueOf(lines, IntervalKey)
    IN IF BodyTruthy(func_body) /\ (Truthy(cron) \/ Truthy(interval))
       THEN [state |-> "cell", func_body |-> func_body, cron |-> cron,
             interval |-> interval]
       ELSE NoCell

\* the declarations the model parses: an interval line, or a cron line of
\* up to MaxCronFields fields joined by single blanks, bare or in quotes
IntervalAlphabet == {"5", "2", "s", "m", "h", "d", "\""}
CronFieldChoices == {<<"0">>, <<"1", "2">>, <<"*">>}
Quotes == {<<>>, <<"\"">>}
DeclLine(key, value) == key \o <<":", " ">> \o value

SchedInit ==
    /\ \/ \E v \in StrsUpTo(IntervalAlphabet, MaxIntervalLen) :
             sched_decl = <<ScheduleDirective, DeclLine(IntervalKey, v)>>
       \/ \E fs \in StrsUpTo(CronFieldChoices, MaxCronFields), q \in Quotes :
             sched_decl = <<ScheduleDirective,
                            DeclLine(CronKey, q \o join(fs, <<" ">>) \o q)>>
    /\ sched_body \in {Statements, FuncDef("f")}
    /\ sched_cell = Unparsed
    /\ sched_out = Pending
    /\ ScheduledCell_counter = 0

SchedIdle ==
    /\ sched_decl = <<>>
    /\ sched_body = Statements
    /\ sched_cell = Unparsed
    /\ sched_out = Pending
    /\ ScheduledCell_counter = 0

ParseScheduledCell ==
    /\ sched_cell = Unparsed
    /\ sched_cell' = parse_scheduled_cell(sched_decl, sched_body)
    /\ UNCHANGED <<task_vars, sched_decl, sched_body, sched_out, ScheduledCell_counter,
                   split_vars, http_vars, compile_vars, manager_vars>>

RenderScheduledCell ==
    /\ sched_out = Pending
    /\ sched_cell.state = "cell"
    /\ sched_out' = ScheduledCell_str(sched_cell, ScheduledCell_counter).out
    /\ ScheduledCell_counter' = ScheduledCell_str(sched_cell, ScheduledCell_counter).counter
    /\ UNCHANGED <<task_vars, sched_decl, sched_body, sched_cell, split_vars, http_vars,
                   compile_vars, manager_vars>>

(***************************************************************************)
(* parser.cells.websocket_cell.WebSocketCell                               *)
(***************************************************************************)
\* WebSocketCell._parse_fields
WebSocketCell_parse_fields(fields) ==
    IF fields.t = "list" THEN fields.v
    ELSE IF fields.t = "str" /\ fields.v # <<>> THEN split(fields.v, ",")
    ELSE <<>>

\* WebSocketCell.__init__
WebSocketCell(args) ==
    [endpoint |-> args.endpoint, ws_type |-> args.ws_type,
     message_schema |-> WebSocketCell_parse_fields(args.message_schema),
     query |-> WebSocketCell_parse_fields(args.query),
     headers |-> WebSocketCell_parse_fields(args.headers),
     func_body |-> args.func_body,
     validate_message_schema |-> args.validate_message_schema]

\* WebSocketCell.__str__: the message schema, the route and the mode whose
\* handler _generate_code emits
WebSocketCell_str(cell) ==
    IF cell.func_body.kind = "invalid" THEN Raised("SyntaxError")
    ELSE
    LET schema == IF cell.message_schema # <<>> /\ cell.validate_message_schema
                  THEN HttpCell_generate_pydantic_model(cell.message_schema,
                                                        <<"", "MessageSchema">>)
                  ELSE Returned([class_name |-> <<"", "">>, field_lines |-> <<>>])
        mode == IF cell.ws_type = "event" THEN "event"
                ELSE IF cell.ws_type = "stream" /\ cell.message_schema = <<>>
                THEN "stream_no_message"
                ELSE IF cell.ws_type = "stream" THEN "stream_with_message"
                ELSE "unsupported"
    IN IF schema.exc # "none" THEN Raised(schema.exc)
       ELSE IF mode = "unsupported" THEN Raised("ValueError")
       ELSE Returned([schema |-> schema.value,
                      route |-> <<"websocket", cell.endpoint>>,
                      func_name |-> get_function_name_from_ast(cell.func_body),
                      mode |-> mode,
                      is_async |-> is_async_function(cell.func_body),
                      func_body |-> cell.func_body])

(***************************************************************************)
(* parser.parse_cell and the per-kind parsers                              *)
(***************************************************************************)
HttpDirective == <<"@", "H", "T", "T", "P">>
HttpDirectiveBlank == <<"@", "H", "T", "T", "P", " ">>
WsDirective == <<"@", "W", "S">>

\* what yaml.safe_load returned for the declaration lines handed to it:
\* None, a mapping, something that is no mapping, or a YAMLError
NoYaml == [kind |-> "none", body |-> PyNone, resp |-> PyNone, query |-> PyNone,
           headers |-> PyNone, message |-> PyNone, type |-> "event",
           validate |-> FALSE]
YamlMapping(body, query, message, type) ==
    [kind |-> "mapping", body |-> body, resp |-> PyNone, query |-> query,
     headers |-> PyNone, message |-> message, type |-> type, validate |-> FALSE]
YamlScalar == [NoYaml EXCEPT !.kind = "scalar"]
YamlError == [NoYaml EXCEPT !.kind = "error"]

\* the cell objects parse_cell returns; NoneCell is Python's None
NoneCell == [class |-> "None"]
CellObject(class, obj) == [class |-> class, obj |-> obj]

\* a str value of the mapping split by split_types, other values kept
SplitIfStr(value) ==
    IF value.t # "str" THEN Returned(value)
    ELSE LET parts == split_types(value.v) IN
         IF parts.exc # "none" THEN Raised(parts.exc)
         ELSE Returned(PyList(parts.value))

Verbs == <<GET, POST, PUT, DELETE, PATCH>>

\* the index of the first verb of Verbs that occurs in first_line, 0 if none
FirstVerb(first_line) ==
    IF \A k \in 1..Len(Verbs) : ~HasSub(first_line, Verbs[k]) THEN 0
    ELSE CHOOSE k \in 1..Len(Verbs) :
             /\ HasSub(first_line, Verbs[k])
             /\ \A j \in 1..(k - 1) : ~HasSub(first_line, Verbs[j])

\* yaml.safe_load("\n".join(lines)): None for blank text, else what the
\* cell's metadata holds (found)
safe_load(lines, found) ==
    IF \A n \in 1..Len(lines) : strip(lines[n]) = <<>> THEN NoYaml ELSE found

\* yaml.safe_load when the first line was not popped and precedes the lines
\* rest was loaded from: a blank line changes nothing, a plain scalar alone or
\* before more plain text is a scalar, and before a mapping it is a YAMLError
safe_load_after(first_line, rest) ==
    IF strip(first_line) = <<>> \/ rest.kind = "error" THEN rest
    ELSE IF rest.kind = "mapping" THEN YamlError
    ELSE YamlScalar

\* parse_http_cell; found is what yaml.safe_load finds in the cell's metadata
parse_http_cell(declaration_lines, found, func_body) ==
    IF declaration_lines = <<>> THEN Raised("IndexError")
    ELSE
    LET first_line == declaration_lines[1]
        verb == FirstVerb(first_line)
        rest == safe_load(Tail(declaration_lines), found)
        yaml == IF verb = 0 THEN safe_load_after(first_line, rest) ELSE rest
        http_verb == IF verb = 0 THEN <<>> ELSE Verbs[verb]
        endpoint == IF verb = 0 THEN <<>>
                    ELSE strip(replace_sub(first_line, Verbs[verb]))
        body == SplitIfStr(yaml.body)
        resp == SplitIfStr(yaml.resp)
    IN IF yaml.kind = "error" THEN Returned(NoneCell)
       ELSE IF yaml.kind = "scalar" THEN Raised("ValueError")
       ELSE IF body.exc # "none" THEN Raised(body.exc)
       ELSE IF resp.exc # "none" THEN Raised(resp.exc)
       ELSE IF BodyTruthy(func_body) /\ http_verb # <<>> /\ endpoint # <<>>
       THEN IF func_body.kind = "invalid" THEN Returned(NoneCell)
            ELSE Returned(CellObject("HttpCell",
                     HttpCell([http |-> http_verb, endpoint |-> endpoint,
                               body |-> body.value, resp |-> resp.value,
                               query |-> yaml.query, headers |-> yaml.headers,
                               func_body |-> func_body])))
       ELSE Returned(NoneCell)

\* parse_websocket_cell; found is what yaml.safe_load finds in the cell's
\* metadata
parse_websocket_cell(declaration_lines, found, func_body) ==
    LET first_line == declaration_lines[1]
        is_ws == HasSub(first_line, WsDirective)
        endpoint == IF is_ws THEN strip(replace_sub(first_line, WsDirective)) ELSE <<>>
        rest == safe_load(Tail(declaration_lines), found)
        yaml == IF is_ws THEN rest ELSE safe_load_after(first_line, rest)
        query == SplitIfStr(yaml.query)
        headers == SplitIfStr(yaml.headers)
        message == SplitIfStr(yaml.message)
    IN IF yaml.kind = "error" THEN Returned(NoneCell)
       ELSE IF yaml.kind = "scalar" THEN Raised("ValueError")
       ELSE IF FirstExc(<<query, headers, message>>) # "none"
       THEN Raised(FirstExc(<<query, headers, message>>))
       ELSE IF BodyTruthy(func_body) /\ endpoint # <<>>
       THEN Returned(CellObject("WebSocketCell",
                WebSocketCell([endpoint |-> endpoint, func_body |-> func_body,
                               ws_type |-> yaml.type,
                               message_schema |-> message.value,
                               query |-> query.value, headers |-> headers.value,
                               validate_message_schema |-> yaml.validate])))
       ELSE Returned(NoneCell)

\* str.lstrip(c) for a one-character c
RECURSIVE lstrip_char(_, _)
lstrip_char(x, c) == IF x # <<>> /\ Head(x) = c THEN lstrip_char(Tail(x), c) ELSE x

TripleDouble == <<"\"", "\"", "\"">>
TripleSingle == <<"'", "'", "'">>

\* the for loop of clean_source from line i on
RECURSIVE clean_source_loop(_, _, _, _, _, _)
clean_source_loop(lines, i, declaration_lines, source_lines, inside_multi_line, first_chunk_collected) ==
    IF i > Len(lines)
    THEN [declaration_lines |-> declaration_lines, source_lines |-> source_lines]
    ELSE LET line == lines[i]
             stripped_line == strip(line)
         IN IF first_chunk_collected
            THEN clean_source_loop(lines, i + 1, declaration_lines,
                                   Append(source_lines, line), inside_multi_line, TRUE)
            ELSE IF StartsWith(stripped_line, TripleDouble)
                    \/ StartsWith(stripped_line, TripleSingle)
            THEN clean_source_loop(lines, i + 1, declaration_lines, source_lines,
                                   ~inside_multi_line, inside_multi_line)
            ELSE IF inside_multi_line \/ StartsWith(stripped_line, <<"#">>)
            THEN clean_source_loop(lines, i + 1,
                                   Append(declaration_lines,
                                          strip(lstrip_char(stripped_line, "#"))),
                                   source_lines, inside_multi_line, FALSE)
            ELSE clean_source_loop(lines, i + 1, declaration_lines,
                                   Append(source_lines, line), inside_multi_line, TRUE)

\* clean_source
clean_source(lines) == clean_source_loop(lines, 1, <<>>, <<>>, FALSE, FALSE)

\* what the ast helpers find in "\n".join(source_lines).strip(): nothing when
\* every source line is blank, else what the cell's code is
FuncBody(source_lines, code) ==
    IF \A n \in 1..Len(source_lines) : strip(source_lines[n]) = <<>>
    THEN EmptyBody ELSE code

\* the branch of parse_cell (lines 62-81) a cell takes
parse_cell_path(cleaned_declaration_lines, source_lines) ==
    LET first_line == IF cleaned_declaration_lines # <<>>
                      THEN cleaned_declaration_lines[1] ELSE <<>>
    IN IF cleaned_declaration_lines = <<>> /\ source_lines = <<>> THEN "None"
       ELSE IF StartsWith(first_line, HttpDirective) THEN "HTTP"
       ELSE IF StartsWith(first_line, WsDirective) THEN "WS"
       ELSE IF StartsWith(first_line, ScheduleDirective) THEN "SCHEDULE"
       ELSE "Code"

\* parse_cell on a cell: cell.source is source.split("\n"), cell.yaml what
\* yaml.safe_load finds in the declaration lines after the first and
\* cell.code what ast.parse finds in the body
parse_cell(cell) ==
    LET cleaned == clean_source(cell.source)
        decl == cleaned.declaration_lines
        func_body == FuncBody(cleaned.source_lines, cell.code)
        path == parse_cell_path(decl, cleaned.source_lines)
    IN IF path = "None" THEN Returned(NoneCell)
       ELSE IF path = "HTTP"
       THEN parse_http_cell(
                IF strip(decl[1]) = HttpDirective THEN Tail(decl)
                ELSE <<replace_sub(decl[1], HttpDirectiveBlank)>> \o Tail(decl),
                cell.yaml, func_body)
       ELSE IF path = "WS" THEN parse_websocket_cell(decl, cell.yaml, func_body)
       ELSE IF path = "SCHEDULE"
       THEN LET parsed == parse_scheduled_cell(decl, func_body) IN
            Returned(IF parsed.state = "cell" THEN CellObject("ScheduledCell", parsed)
                     ELSE NoneCell)
       ELSE Returned(CellObject("CodeCell", [source |-> cell.source]))

\* a rendering: the text a cell's __str__ returned, with the class it is of
Rendering(class, out) ==
    IF out.exc # "none" THEN out ELSE Returned([cell |-> class, text |-> out.value])

\* str(cell) with ScheduledCell._counter = counter: outcome and counter after
CellStr(cell, counter) ==
    IF cell.class = "ScheduledCell"
    THEN The({[out |-> Rendering(cell.class, r.out), counter |-> r.counter]
              : r \in {ScheduledCell_str(cell.obj, counter)}})
    ELSE IF cell.class = "HttpCell"
    THEN [out |-> Rendering(cell.class, HttpCell_str(cell.obj)), counter |-> counter]
    ELSE IF cell.class = "WebSocketCell"
    THEN [out |-> Rendering(cell.class, WebSocketCell_str(cell.obj)), counter |-> counter]
    ELSE [out |-> Rendering(cell.class, Returned(cell.obj.source)), counter |-> counter]

(***************************************************************************)
(* parser.parse_notebook_cells and compile_notebook_to_py                  *)
(***************************************************************************)
\* the for loop of lines 236-240 from cell i on; acc is parsed_cells, each
\* entry a cell object with the notebook position it came from
RECURSIVE ParseLoop(_, _, _)
ParseLoop(cells, i, acc) ==
    IF i > Len(cells) THEN Returned(acc)
    ELSE IF cells[i].cell_type # "code" THEN ParseLoop(cells, i + 1, acc)
    ELSE The({IF parsed_cell.exc # "none" THEN Raised(parsed_cell.exc)
              ELSE ParseLoop(cells, i + 1,
                             IF parsed_cell.value.class = "None" THEN acc
                             ELSE Append(acc, [idx |-> i, cell |-> parsed_cell.value]))
              : parsed_cell \in {parse_cell(cells[i])}})

\* the mutant of SortedHttpLast: the list is left in notebook order
SortedNotAtAll(cells) == cells

\* sorted(parsed_cells, key=lambda x: isinstance(x, HttpCell)): a stable
\* sort on a boolean key
SortedHttpLast(cells) ==
    SelectSeq(cells, LAMBDA c : c.cell.class # "HttpCell")
        \o SelectSeq(cells, LAMBDA c : c.cell.class = "HttpCell")

\* [str(cell) for cell in sorted_cells] from cell i on
RECURSIVE RenderLoop(_, _, _, _)
RenderLoop(cells, i, counter, acc) ==
    IF i > Len(cells) THEN [out |-> Returned(acc), counter |-> counter]
    ELSE The({IF r.out.exc # "none" THEN r
              ELSE RenderLoop(cells, i + 1, r.counter, Append(acc, r.out.value))
              : r \in {CellStr(cells[i].cell, counter)}})

\* the mutant of EmptyList: the list of the previous call is kept
KeptList(previous) == previous

\* parsed_cells = [] (line 235); previous is the list the last call left
EmptyList(previous) == <<>>

\* parse_notebook_cells on an opened notebook
parse_notebook_cells(cells, counter, previous) ==
    The({IF parsed.exc # "none"
         THEN [out |-> parsed, counter |-> counter,
               parsed_cells |-> <<>>, sorted_cells |-> <<>>]
         ELSE The({The({[out |-> rendered.out, counter |-> rendered.counter,
                         parsed_cells |-> parsed.value, sorted_cells |-> sorted]
                        : rendered \in {RenderLoop(sorted, 1, counter, <<>>)}})
                   : sorted \in {SortedHttpLast(parsed.value)}})
         : parsed \in {ParseLoop(cells, 1, EmptyList(previous))}})

Preamble ==
    <<"from fastapi import APIRouter, HTTPException, WebSocket",
      "from pydantic import BaseModel, ValidationError",
      "from scheduler import scheduler",
      "from typing import List, Dict, Optional, Union, Any, AsyncGenerator, Callable",
      "import uuid",
      "import json",
      "from websocket_manager import manager",
      "router = APIRouter()">>

\* compile_notebook_to_py: the preamble and then the cells' renderings
\* (autopep8's reformatting of the joined text is not modelled)
compile_notebook_to_py(cells, counter, previous) ==
    The({IF r.out.exc # "none" THEN r
         ELSE [r EXCEPT !.out = Returned([preamble |-> Preamble, cells |-> r.out.value])]
         : r \in {parse_notebook_cells(cells, counter, previous)}})

\* the cells the model's notebooks are made of
\* the text of a body: some line of code, a def with its indented block
BodyLines(code) ==
    IF code.kind = "empty" THEN <<>>
    ELSE IF code.kind \in {"def", "asyncdef"} THEN <<<<"d">>, <<" ", "p">>>>
    ELSE <<<<"x">>>>

\* a cell whose source is the declaration lines decl as '# ' comments and then
\* the body; '' is one empty line
NotebookCell(cell_type, decl, yaml, src) ==
    [cell_type |-> cell_type,
     source |-> IF decl = <<>> /\ src.kind = "empty" THEN <<<<>>>>
                ELSE [n \in 1..Len(decl) |-> <<"#", " ">> \o decl[n]] \o BodyLines(src),
     yaml |-> yaml, code |-> src]

CodeSource == NotebookCell("code", <<>>, NoYaml, Statements)
MarkdownCell == NotebookCell("markdown", <<>>, NoYaml, Statements)
EmptySource == NotebookCell("code", <<>>, NoYaml, EmptyBody)
HttpGetUser ==
    NotebookCell("code", <<<<"@", "H", "T", "T", "P", " ", "G", "E", "T", " ", "/", "u", "/", "{", "i", "d", "}">>,
                           <<"q", "u", "e", "r", "y", ":", " ">> \o NameStr>>,
                 YamlMapping(PyNone, PyStr(NameStr), PyNone, "event"), FuncDef("f"))
HttpPostUser ==
    NotebookCell("code", <<<<"@", "H", "T", "T", "P", " ", "P", "O", "S", "T", " ", "/", "u">>,
                           <<"b", "o", "d", "y", ":", " ">> \o IdInt>>,
                 YamlMapping(PyStr(IdInt), PyNone, PyNone, "event"), AsyncFuncDef("g"))
WsEvent == NotebookCell("code", <<<<"@", "W", "S", " ", "/", "w">>>>, NoYaml, FuncDef("h"))
SchedInterval ==
    NotebookCell("code", <<ScheduleDirective, <<"i", "n", "t", "e", "r", "v", "a", "l", ":", " ", "5", "m">>>>, NoYaml, Statements)
SchedBadCron ==
    NotebookCell("code", <<ScheduleDirective, <<"c", "r", "o", "n", ":", " ", "0", " ", "0", " ", "1", "2">>>>, NoYaml, Statements)
SchedQuotedInterval ==
    NotebookCell("code", <<ScheduleDirective, <<"i", "n", "t", "e", "r", "v", "a", "l", ":", " ", "\"", "5", "m", "\"">>>>, NoYaml, Statements)

SchedNoData == NotebookCell("code", <<ScheduleDirective>>, NoYaml, Statements)
SchedBadInterval ==
    NotebookCell("code", <<ScheduleDirective, <<"i", "n", "t", "e", "r", "v", "a", "l", ":", " ", "s", "m">>>>, NoYaml, Statements)

CellChoices == {CodeSource, MarkdownCell, SchedNoData, HttpGetUser, HttpPostUser,
                WsEvent, SchedInterval, SchedBadCron, SchedBadInterval}

CellIdle ==
    /\ cell_source = NotebookCell("code", <<>>, NoYaml, EmptyBody)
    /\ cell_clean = Pending
    /\ cell_parsed = Pending

CompileInit ==
    /\ notebook \in StrsUpTo(CellChoices, MaxCells)
    /\ parsed_cells = <<>>
    /\ sorted_cells = <<>>
    /\ history = <<>>
    /\ ScheduledCell_counter = 0
    /\ CellIdle

CompileIdle ==
    /\ notebook = <<>>
    /\ parsed_cells = <<>>
    /\ sorted_cells = <<>>
    /\ history = <<>>
    /\ CellIdle

\* one call of compile_notebook_to_py on the notebook
CompileNotebook ==
    /\ Len(history) < MaxRuns
    /\ \E r \in {compile_notebook_to_py(notebook, ScheduledCell_counter, parsed_cells)} :
         /\ history' = Append(history, [start |-> ScheduledCell_counter, out |-> r.out])
         /\ ScheduledCell_counter' = r.counter
         /\ parsed_cells' = r.parsed_cells
         /\ sorted_cells' = r.sorted_cells
    /\ UNCHANGED <<task_vars, notebook, cell_vars, split_vars, http_vars, sched_vars, manager_vars>>

\* the process ends and a new one starts: the class attribute is 0 again
\* (line 8); parsed_cells and sorted_cells stay what the last call built
RestartProcess ==
    /\ history # <<>>
    /\ Len(history) < MaxRuns
    /\ ScheduledCell_counter # 0
    /\ ScheduledCell_counter' = 0
    /\ UNCHANGED <<task_vars, notebook, parsed_cells, sorted_cells, history, cell_vars,
                   split_vars, http_vars, sched_vars, manager_vars>>

(***************************************************************************)
(* one cell: clean_source and parse_cell                                   *)
(***************************************************************************)
\* a mapping with none of the keys the parsers read
YamlOther == [NoYaml EXCEPT !.kind = "mapping"]

\* the lines of the cells parse_cell is called on
CellLineChoices ==
    {<<"#", " ", "@", "H", "T", "T", "P", " ", "G", "E", "T", " ", "/", "u">>,
     <<"#", " ", "@", "H", "T", "T", "P">>,
     <<"#", " ", "@", "H", "T", "T", "P", " ", "/", "u">>,
     <<"#", " ", "@", "H", "T", "T", "P", " ", "G", "E", "T">>,
     <<"#", " ", "@", "W", "S", " ", "/", "w">>,
     <<"#", " ", "@", "W", "S">>,
     <<"#", " ", "@", "S", "C", "H", "E", "D", "U", "L", "E">>,
     <<"#", " ", "i", "n", "t", "e", "r", "v", "a", "l", ":", " ", "5", "m">>,
     <<"#">>,
     <<"x">>}

\* the lines clean_source is called on
CleanLineChoices ==
    {<<"#", " ", "a">>, <<" ", "#", "a">>, <<"x">>, <<" ", "x">>, <<>>,
     TripleDouble, TripleSingle \o <<"a">>,
     TripleDouble \o <<"a">> \o TripleDouble}

CellOf(lines, found) ==
    [cell_type |-> "code", source |-> lines, yaml |-> found, code |-> FuncDef("f")]

CellInit ==
    /\ cell_source \in {CellOf(lines, found) :
                           lines \in StrsUpTo(CellLineChoices, MaxLines) \ {<<>>},
                           found \in {YamlOther, YamlScalar, YamlError}}
    /\ cell_clean = Pending
    /\ cell_parsed = Pending

CleanInit ==
    /\ cell_source \in {CellOf(lines, NoYaml) :
                           lines \in StrsUpTo(CleanLineChoices, MaxCleanLines) \ {<<>>}}
    /\ cell_clean = Pending
    /\ cell_parsed = Pending

\* one call of clean_source on the cell's lines
CleanSource ==
    /\ cell_clean = Pending
    /\ cell_clean' = Returned(clean_source(cell_source.source))
    /\ UNCHANGED <<task_vars, cell_source, cell_parsed, notebook, parsed_cells, sorted_cells,
                   history, split_vars, http_vars, sched_vars, ScheduledCell_counter,
                   manager_vars>>

\* one call of parse_cell on the cell
ParseCell ==
    /\ cell_parsed = Pending
    /\ \E cleaned \in {clean_source(cell_source.source)} :
           cell_parsed' = [path |-> parse_cell_path(cleaned.declaration_lines,
                                                    cleaned.source_lines),
                           out |-> parse_cell(cell_source)]
    /\ UNCHANGED <<task_vars, cell_source, cell_clean, notebook, parsed_cells, sorted_cells,
                   history, split_vars, http_vars, sched_vars, ScheduledCell_counter,
                   manager_vars>>

(***************************************************************************)
(* C5                                                                      *)
(***************************************************************************)
\* the declared fields 'name: type?' and 'name: type!' the model reaches
C5_Names == {<<"a">>, <<"a", "t">>}
C5_Types == {<<"t">>, <<"t", "a">>}
C5_Field(name, gap, type, mark) == name \o <<":">> \o gap \o type \o <<mark>>

\* the section that holds the single field f, or "" when the cell is none of
\* the single-field cells
C5_Section(f) ==
    IF http_args.body = PyList(<<f>>) /\ http_args.resp = PyNone /\ http_args.query = PyNone
    THEN "body"
    ELSE IF http_args.resp = PyList(<<f>>) /\ http_args.body = PyNone /\ http_args.query = PyNone
    THEN "resp"
    ELSE IF http_args.query = PyList(<<f>>) /\ http_args.body = PyNone /\ http_args.resp = PyNone
    THEN "query"
    ELSE ""

\* what the cell's rendering emits for its single field: the schema's field
\* line (body, resp) or the handler's parameter (query)
C5_Emitted(section) ==
    IF section = "query" THEN http_out.value.func_params[1].text
    ELSE http_out.value.models[1].field_lines[1]

C5_MarkerHandled(section, name, type, mark) ==
    LET emitted == C5_Emitted(section)
        parts == split(emitted, ":")
    IN /\ ~Contains(emitted, "?")
       /\ ~Contains(emitted, "!")
       /\ Len(parts) = 2
       /\ strip(parts[1]) = name
       /\ strip(parts[2]) = (IF mark = "?" THEN UnionOpen \o type \o NoneClose ELSE type)

\* C5: a field 'name: type?' is emitted as optional (nullable) of the base
\* type and 'name: type!' as required of the base type, with the marker
\* stripped, whichever of body, resp and query declares it.
C5_MarkersAllSections ==
    \A name \in C5_Names, type \in C5_Types, mark \in {"?", "!"}, gap \in {<<>>, <<" ">>} :
        \A section \in {"body", "resp", "query"} :
            (/\ C5_Section(C5_Field(name, gap, type, mark)) = section
             /\ http_out # Pending)
            => /\ http_out.exc = "none"
               /\ C5_MarkerHandled(section, name, type, mark)

\* the same statement for the two schema sections alone
C5_MarkersSchemaSections ==
    \A name \in C5_Names, type \in C5_Types, mark \in {"?", "!"}, gap \in {<<>>, <<" ">>} :
        \A section \in {"body", "resp"} :
            (/\ C5_Section(C5_Field(name, gap, type, mark)) = section
             /\ http_out # Pending)
            => /\ http_out.exc = "none"
               /\ C5_MarkerHandled(section, name, type, mark)

(***************************************************************************)
(* C6                                                                      *)
(***************************************************************************)
\* where a '{name}' parameter opens in template e, and where its name ends
C6_NameEnd(e, i) ==
    CHOOSE k \in i..Len(e) : /\ \A j \in (i + 1)..k : IsWord(e[j])
                             /\ (k = Len(e) \/ ~IsWord(e[k + 1]))

C6_ParamStarts(e) ==
    {i \in 1..Len(e) : /\ e[i] = "{"
                       /\ C6_NameEnd(e, i) > i
                       /\ C6_NameEnd(e, i) < Len(e)
                       /\ e[C6_NameEnd(e, i) + 1] = "}"}

\* the names of the '{name}' parameters of template e, in template order
C6_TemplateParams(e) ==
    LET starts == C6_ParamStarts(e) IN
    [k \in 1..Cardinality(starts) |->
        SubSeq(e, NthOf(starts, k) + 1, C6_NameEnd(e, NthOf(starts, k)))]

\* the declared query fields, in declared order
C6_DeclaredQuery ==
    IF http_args.query.t = "list" THEN http_args.query.v
    ELSE IF http_args.query.t = "str" THEN <<NameStr, IdInt>>
    ELSE <<>>

C6_BodyDeclared == http_args.body.t = "list" /\ http_args.body.v # <<>>

\* the cells of the path-template family: no response schema, every query
\* field of the form name:type
C6_Case ==
    /\ http_out # Pending
    /\ http_args.resp = PyNone
    /\ http_args.body \in BodyChoices
    /\ http_args.query \in QueryChoices

\* C6: the handler's parameters are, in this order, one str parameter per
\* '{name}' of the path template in template order, the body-schema
\* parameter iff body fields were declared, and the query fields in
\* declared order.
C6_SignatureOrder ==
    C6_Case =>
        LET names == C6_TemplateParams(http_args.endpoint)
            query == C6_DeclaredQuery
            nb == IF C6_BodyDeclared THEN 1 ELSE 0
            params == http_out.value.func_params
        IN /\ http_out.exc = "none"
           /\ Len(params) = Len(names) + nb + Len(query)
           /\ \A k \in 1..Len(names) :
                 params[k] = [kind |-> "url", text |-> names[k] \o <<":", " ">> \o StrType]
           /\ nb = 1 => params[Len(names) + 1].kind = "body"
           /\ \A k \in 1..Len(query) :
                 /\ params[Len(names) + nb + k].kind = "query"
                 /\ split(params[Len(names) + nb + k].text, ":")[1] = split(query[k], ":")[1]

\* the same statement for the templates whose every '{name}' directly
\* follows a "/"
C6_SignatureOrderAfterSlash ==
    (\A i \in C6_ParamStarts(http_args.endpoint) : http_args.endpoint[i - 1] = "/")
        => C6_SignatureOrder

\* the example: GET /u/{id} with query n:str
C6_Example ==
    (/\ http_out # Pending
     /\ http_args = HttpArgs(<<"/", "u", "/", "{", "i", "d", "}">>, PyNone, PyNone,
                             PyList(<<NameStr>>)))
    => /\ HttpCell_extract_url_params(HttpCell(http_args)) = <<<<<<"i", "d">>, StrType>>>>
       /\ http_out.value.func_params =
              <<[kind |-> "url", text |-> <<"i", "d", ":", " ", "s", "t", "r">>],
                [kind |-> "query", text |-> <<"n", ":", " ", "s", "t", "r">>]>>

(***************************************************************************)
(* C7                                                                      *)
(***************************************************************************)
\* the declared value: the text after "key: " on the declaration's line
C7_DeclaredValue(key) ==
    SubSeq(sched_decl[2], Len(key) + 3, Len(sched_decl[2]))

C7_IsIntervalDecl ==
    /\ Len(sched_decl) = 2
    /\ StartsWith(sched_decl[2], IntervalKey \o <<":", " ">>)

\* the seconds the rendering registers the interval job with, -1 if none
C7_Seconds ==
    IF /\ sched_out.exc = "none"
       /\ sched_out.value # <<>>
       /\ sched_out.value[1].line = "decorator"
       /\ sched_out.value[1].trigger = "interval"
    THEN sched_out.value[1].seconds ELSE -1

C7_Quoted5m == <<"\"", "5", "m", "\"">>

\* '<n><u>' with n a numeral and u one unit character gives n, 60 n or
\* 3600 n seconds for s, m, h and n seconds with a warning for another u
C7_UnitConversion ==
    \A n \in StrsUpTo({"5", "2"}, MaxIntervalLen) \ {<<>>} :
        \A u \in {"s", "m", "h", "d"} :
            (/\ sched_out # Pending
             /\ C7_IsIntervalDecl
             /\ C7_DeclaredValue(IntervalKey) = n \o <<u>>)
            => /\ C7_Seconds = DecimalValue(n) * (CASE u = "s" -> 1 [] u = "m" -> 60
                                                    [] u = "h" -> 3600 [] OTHER -> 1)
               /\ sched_out.value[1].warned = (u = "d")

\* C7: the declaration line interval: "5m" registers the job with
\* seconds=300, and an interval <n><u> is normalized to n, 60 n, 3600 n
\* seconds for s, m, h and to n seconds with a warning, without raising,
\* for any other unit character.
C7_IntervalNormalized ==
    /\ (/\ C7_IsIntervalDecl
        /\ C7_DeclaredValue(IntervalKey) = C7_Quoted5m
        /\ sched_cell # Unparsed)
       => /\ sched_cell.state = "cell"
          /\ sched_out # Pending => C7_Seconds = 300
    /\ C7_UnitConversion

(***************************************************************************)
(* C8                                                                      *)
(***************************************************************************)
C8_IsCronDecl ==
    /\ Len(sched_decl) = 2
    /\ StartsWith(sched_decl[2], CronKey \o <<":", " ">>)

\* field k of a value, its fields being what single blanks separate
C8_Field(value, k) ==
    LET cuts == {0} \cup {i \in 1..Len(value) : value[i] = " "} \cup {Len(value) + 1}
    IN SubSeq(value, NthOf(cuts, k) + 1, NthOf(cuts, k + 1) - 1)

C8_FieldCount(value) == Cardinality({i \in 1..Len(value) : value[i] = " "}) + 1

C1_Last == history[Len(history)]

\* parse_cell's result for each cell of the notebook (a markdown cell is
\* skipped), or the exception it raised
C1_Parsed ==
    [i \in 1..Len(notebook) |->
        IF notebook[i].cell_type # "code" THEN Returned(NoneCell)
        ELSE parse_cell(notebook[i])]

\* the notebook positions whose cell parse_cell returned an object for
C1_Kept(parsed) == {i \in DOMAIN parsed : parsed[i].value.class # "None"}
C1_IsHttp(parsed, i) == parsed[i].value.class = "HttpCell"

\* the notebook position of the cell behind the p-th rendering
C1_Origin(p) == sorted_cells[p].idx

\* the rendering with the numbers of synthesized names set to 0
MaskName(name) == IF name.n >= 0 THEN [name EXCEPT !.n = 0] ELSE name
MaskLine(l) ==
    IF l.line \in {"decorator", "def"} THEN [l EXCEPT !.name = MaskName(@)] ELSE l
MaskRendering(r) ==
    IF r.cell = "ScheduledCell"
    THEN [r EXCEPT !.text = [k \in 1..Len(r.text) |-> MaskLine(r.text[k])]]
    ELSE r
MaskOutput(out) ==
    IF out.exc # "none" THEN out
    ELSE [out EXCEPT !.value.cells =
              [k \in 1..Len(out.value.cells) |-> MaskRendering(out.value.cells[k])]]

\* C1: a compilation that returns emits one rendering for each cell parse_cell
\* returned an object for and none for the others, every non-HTTP rendering
\* before every HTTP rendering, and within each of the two groups in the
\* order the cells have in the notebook
C1_AssemblyOrder ==
    (history # <<>> /\ C1_Last.out.exc = "none") =>
        \A parsed \in {C1_Parsed} : \A cells \in {C1_Last.out.value.cells} :
        /\ Len(cells) = Cardinality(C1_Kept(parsed))
        /\ Len(sorted_cells) = Len(cells)
        /\ {C1_Origin(p) : p \in 1..Len(cells)} = C1_Kept(parsed)
        /\ \A p \in 1..Len(cells) :
               /\ cells[p].cell = parsed[C1_Origin(p)].value.class
               /\ MaskRendering(cells[p]) =
                      MaskRendering(CellStr(parsed[C1_Origin(p)].value, 0).out.value)
        /\ \A p, q \in 1..Len(cells) :
               p < q => /\ ~(C1_IsHttp(parsed, C1_Origin(p)) /\ ~C1_IsHttp(parsed, C1_Origin(q)))
                        /\ (C1_IsHttp(parsed, C1_Origin(p)) = C1_IsHttp(parsed, C1_Origin(q))
                               => C1_Origin(p) < C1_Origin(q))

\* an HTTP cell, a cell parse_cell returns None for and a non-HTTP cell, in
\* this order, compiled: the non-HTTP rendering comes first
C1_Witness ==
    /\ history # <<>>
    /\ notebook = <<HttpGetUser, SchedNoData, CodeSource>>
    /\ C1_Last.out.exc = "none"
    /\ Len(C1_Last.out.value.cells) = 2
    /\ C1_Last.out.value.cells[1].cell = "CodeCell"
    /\ C1_Last.out.value.cells[2].cell = "HttpCell"

(***************************************************************************)
(* C9  a cron value of fewer than six fields                               *)
(***************************************************************************)
\* the notebook's cell i is a Scheduled cell with a cron value of fewer than
\* six fields
C9_ShortCron(parsed, i) ==
    /\ parsed[i].exc = "none"
    /\ parsed[i].value.class = "ScheduledCell"
    /\ Truthy(parsed[i].value.obj.cron)
    /\ Len(split(parsed[i].value.obj.cron.v, " ")) < 6

\* the notebook's cell i parses and renders without raising on its own
C9_Compiles(parsed, i) ==
    /\ parsed[i].exc = "none"
    /\ parsed[i].value.class # "None" => CellStr(parsed[i].value, 0).out.exc = "none"

C9_Comment == <<[line |-> "comment", text |-> "# Invalid cron format"]>>
C9_IsComment(rendering) ==
    rendering.cell = "ScheduledCell" /\ rendering.text = C9_Comment

\* C9: when no other cell of the notebook raises, a compilation of a notebook
\* with Scheduled cells of fewer than six cron fields returns, renders each of
\* them as the comment alone (no decorator, no body) and renders every other
\* cell
C9_ShortCronIsComment ==
    history # <<>> =>
        \A parsed \in {C1_Parsed} :
            (\A i \in DOMAIN parsed : C9_ShortCron(parsed, i) \/ C9_Compiles(parsed, i))
            => /\ C1_Last.out.exc = "none"
               /\ Len(C1_Last.out.value.cells) = Cardinality(C1_Kept(parsed))
               /\ \A p \in 1..Len(C1_Last.out.value.cells) :
                      C9_ShortCron(parsed, C1_Origin(p))
                          <=> C9_IsComment(C1_Last.out.value.cells[p])

\* a three-field cron cell between two other cells, compiled: a comment and
\* the two other renderings
C9_Witness ==
    /\ history # <<>>
    /\ notebook = <<CodeSource, SchedBadCron, HttpGetUser>>
    /\ C1_Last.out.exc = "none"
    /\ Len(C1_Last.out.value.cells) = 3
    /\ C9_IsComment(C1_Last.out.value.cells[2])

(***************************************************************************)
(* C10  compiling the same notebook again                                  *)
(***************************************************************************)
\* C10: any two compilations of the notebook have the same outcome up to the
\* numbers of the synthesized names, and the same outcome when
\* ScheduledCell._counter was the same at their starts
C10_Recompile ==
    \A i, j \in 1..Len(history) :
        /\ MaskOutput(history[i].out) = MaskOutput(history[j].out)
        /\ history[i].start = history[j].start => history[i].out = history[j].out

\* three compilations of a notebook with a synthesized name, a new process
\* before the third: the second differs from the first in the name only, the
\* third is the first
C10_Witness ==
    /\ Len(history) = 3
    /\ history[1].out.exc = "none"
    /\ history[1].start = 0 /\ history[2].start > 0 /\ history[3].start = 0
    /\ history[1].out # history[2].out
    /\ history[1].out = history[3].out

(***************************************************************************)
(* C11  parse_cell's dispatch on the first non-blank declaration line      *)
(***************************************************************************)
\* the declaration lines clean_source hands parse_cell, blank ones left out
C11_NonBlank(declaration_lines) ==
    SelectSeq(declaration_lines, LAMBDA line : strip(line) # <<>>)

\* the kind the first non-blank declaration line names
C11_Kind(declaration_lines) ==
    IF C11_NonBlank(declaration_lines) = <<>> THEN "Code"
    ELSE IF StartsWith(C11_NonBlank(declaration_lines)[1], HttpDirective) THEN "HTTP"
    ELSE IF StartsWith(C11_NonBlank(declaration_lines)[1], WsDirective) THEN "WS"
    ELSE IF StartsWith(C11_NonBlank(declaration_lines)[1], ScheduleDirective)
    THEN "SCHEDULE"
    ELSE "Code"

\* the passthrough cell of a source and its rendering
C11_Passthrough(cell) ==
    /\ cell_parsed.out = Returned(CellObject("CodeCell", [source |-> cell.source]))
    /\ CellStr(cell_parsed.out.value, 0).out
           = Returned([cell |-> "CodeCell", text |-> cell.source])

\* C11: for every cell with a declaration or a body, parse_cell takes the path
\* (HTTP, WebSocket, scheduled, passthrough) that the first non-blank
\* declaration line names, the passthrough path when no declaration line names
\* one, and the passthrough cell's rendering is the cell's source text
C11_FirstNonBlankDecides ==
    cell_parsed # Pending =>
        \A cleaned \in {clean_source(cell_source.source)} :
            /\ cell_parsed.path = C11_Kind(cleaned.declaration_lines)
            /\ cell_parsed.path = "Code" => C11_Passthrough(cell_source)

\* what the code does: the first declaration line decides, blank or not
C11_FirstLineDecides ==
    cell_parsed # Pending =>
        \A cleaned \in {clean_source(cell_source.source)} :
            /\ cell_parsed.path \in {"HTTP", "WS", "SCHEDULE", "Code"}
            /\ cell_parsed.path =
                   IF cleaned.declaration_lines = <<>> THEN "Code"
                   ELSE C11_Kind(<<cleaned.declaration_lines[1]>>)
            /\ cell_parsed.path = "Code" => C11_Passthrough(cell_source)

\* a cell whose first declaration line is blank and whose second is a directive
C11_BlankFirst ==
    /\ cell_parsed # Pending
    /\ cell_source.source = <<<<"#">>, <<"#", " ", "@", "H", "T", "T", "P", " ", "G", "E", "T", " ", "/", "u">>>>
    /\ cell_parsed.path = "Code"

(***************************************************************************)
(* C12  the declaration chunk and the body clean_source returns            *)
(***************************************************************************)
\* the line starts, after its leading blanks, with a block-quote fence
C12_IsFence(line) ==
    StartsWith(strip(line), TripleDouble) \/ StartsWith(strip(line), TripleSingle)

\* the fence shows again later in the line: the quote closes where it opened
C12_ClosedOnLine(line) ==
    \E i \in 4..Len(strip(line)) - 2 :
        SubSeq(strip(line), i, i + 2) = SubSeq(strip(line), 1, 3)

\* line i lies inside the first block-quoted region of the lines
C12_InRegion(lines, i) ==
    \E o \in 1..(i - 1) :
        /\ C12_IsFence(lines[o]) /\ ~C12_ClosedOnLine(lines[o])
        /\ \A k \in 1..(o - 1) : ~C12_IsFence(lines[k])
        /\ \A k \in (o + 1)..i : ~C12_IsFence(lines[k])

C12_IsComment(line) == StartsWith(strip(line), <<"#">>)

\* the lines before the body that are not fences, in order
C12_Chunk(lines, n) ==
    SelectSeq(SubSeq(lines, 1, n), LAMBDA line : ~C12_IsFence(line))

\* C12: clean_source's body is a suffix of the input lines, unchanged and in
\* order; every line before it, fences apart, is a '#' line or a line inside
\* the first block-quoted region, and these are the declaration lines
C12_FirstChunkOnly ==
    cell_clean # Pending =>
        \A lines \in {cell_source.source} :
        \A n \in {Len(lines) - Len(cell_clean.value.source_lines)} :
            /\ n >= 0
            /\ cell_clean.value.source_lines = SubSeq(lines, n + 1, Len(lines))
            /\ Len(cell_clean.value.declaration_lines) = Len(C12_Chunk(lines, n))
            /\ \A i \in 1..n :
                   C12_IsFence(lines[i]) \/ C12_IsComment(lines[i])
                       \/ C12_InRegion(lines, i)

\* the part of the claim about the body alone
C12_BodyIsSuffix ==
    cell_clean # Pending =>
        \A lines \in {cell_source.source} :
        \A n \in {Len(lines) - Len(cell_clean.value.source_lines)} :
            /\ n >= 0
            /\ cell_clean.value.source_lines = SubSeq(lines, n + 1, Len(lines))
            /\ Len(cell_clean.value.declaration_lines) = Len(C12_Chunk(lines, n))

\* a statement after a docstring that closes on its own line is a declaration
C12_OneLineDocstring ==
    /\ cell_clean # Pending
    /\ cell_source.source = <<TripleDouble \o <<"a">> \o TripleDouble, <<"x">>>>
    /\ cell_clean.value.declaration_lines = <<<<"x">>>>
    /\ cell_clean.value.source_lines = <<>>

(***************************************************************************)
(* C13  a cell that fails to compile and the cells around it               *)
(***************************************************************************)
\* the notebook positions whose cell parses and renders on its own
C13_Good(parsed) ==
    {i \in DOMAIN parsed :
        /\ parsed[i].exc = "none"
        /\ parsed[i].value.class # "None"
        /\ CellStr(parsed[i].value, 0).out.exc = "none"}

\* C13: no compilation of a notebook raises, and its output holds a
\* rendering for every cell that parses and renders on its own, whatever the
\* other cells of the notebook are
C13_ErrorsAreLocal ==
    history # <<>> =>
        \A parsed \in {C1_Parsed} :
            /\ C1_Last.out.exc = "none"
            /\ Len(C1_Last.out.value.cells) >= Cardinality(C13_Good(parsed))

\* a notebook of a code cell and a scheduled cell with the interval 'sm': the
\* compilation raises and the code cell's rendering is lost with it
C13_OneBadCell ==
    /\ history # <<>>
    /\ notebook = <<CodeSource, SchedBadInterval>>
    /\ C1_Last.out.exc = "ValueError"

(***************************************************************************)
(* C14  directive cells that lack their required data                      *)
(***************************************************************************)
\* the text of an '@HTTP ...' line names no verb, or a verb and no path
C14_NoVerb(text) == \A k \in 1..Len(Verbs) : ~HasSub(text, Verbs[k])
C14_NoPath(text) ==
    \E k \in 1..Len(Verbs) : HasSub(text, Verbs[k])
                                /\ strip(replace_sub(text, Verbs[k])) = <<>>

\* an @HTTP cell without verb or path: '@HTTP' is its only declaration line,
\* or its '@HTTP ...' line lacks one of them
C14_HttpLacks(declaration_lines) ==
    /\ StartsWith(declaration_lines[1], HttpDirective)
    /\ IF strip(declaration_lines[1]) = HttpDirective THEN Len(declaration_lines) = 1
       ELSE \/ C14_NoVerb(replace_sub(declaration_lines[1], HttpDirectiveBlank))
            \/ C14_NoPath(replace_sub(declaration_lines[1], HttpDirectiveBlank))

\* an @WS cell without a path
C14_WsLacks(declaration_lines) ==
    /\ StartsWith(declaration_lines[1], WsDirective)
    /\ strip(replace_sub(declaration_lines[1], WsDirective)) = <<>>

\* an @SCHEDULE cell with neither a cron nor an interval line
C14_ScheduleLacks(declaration_lines) ==
    /\ StartsWith(declaration_lines[1], ScheduleDirective)
    /\ \A n \in 1..Len(declaration_lines) :
           /\ ~StartsWith(declaration_lines[n], CronKey \o <<":">>)
           /\ ~StartsWith(declaration_lines[n], IntervalKey \o <<":">>)

\* the parsed cell is one with well-formed metadata whose first declaration
\* line is a directive
C14_Directive(declaration_lines) ==
    /\ cell_parsed # Pending
    /\ cell_source.yaml = YamlOther
    /\ declaration_lines # <<>>

\* C14: parse_cell returns nothing, and raises nothing, for every @HTTP cell
\* without verb or path, every @WS cell without path and every @SCHEDULE cell
\* with neither cron nor interval
C14_SilentNone ==
    \A cleaned \in {clean_source(cell_source.source)} :
        (/\ C14_Directive(cleaned.declaration_lines)
         /\ \/ C14_HttpLacks(cleaned.declaration_lines)
            \/ C14_WsLacks(cleaned.declaration_lines)
            \/ C14_ScheduleLacks(cleaned.declaration_lines))
        => cell_parsed.out = Returned(NoneCell)

\* the same without the @HTTP cells that name no verb
C14_SilentNoneWithVerb ==
    \A cleaned \in {clean_source(cell_source.source)} :
        (/\ C14_Directive(cleaned.declaration_lines)
         /\ \/ /\ C14_HttpLacks(cleaned.declaration_lines)
               /\ C14_NoPath(replace_sub(cleaned.declaration_lines[1],
                                         HttpDirectiveBlank))
            \/ C14_WsLacks(cleaned.declaration_lines)
            \/ C14_ScheduleLacks(cleaned.declaration_lines))
        => cell_parsed.out = Returned(NoneCell)

\* the cell whose only line is '# @HTTP': parse_cell raises IndexError
C14_HttpOnly ==
    /\ cell_parsed # Pending
    /\ cell_source.source = <<<<"#", " ", "@", "H", "T", "T", "P">>>>
    /\ cell_parsed.out = Raised("IndexError")

(***************************************************************************)
(* websockets_manager_template: ConnectionManager                          *)
(***************************************************************************)
\* Python's None where an identifier is expected (identifiers are strings)
None == "<None>"

\* a dict is the sequence of its <<key, value>> items in insertion order
DictHas(d, key) == \E n \in 1..Len(d) : d[n][1] = key
DictGet(d, key, default) ==
    IF DictHas(d, key) THEN d[CHOOSE n \in 1..Len(d) : d[n][1] = key][2] ELSE default
DictPut(d, key, value) ==
    IF DictHas(d, key)
    THEN [n \in 1..Len(d) |-> IF d[n][1] = key THEN <<key, value>> ELSE d[n]]
    ELSE Append(d, <<key, value>>)
DictPop(d, key) == SelectSeq(d, LAMBDA item : item[1] # key)
DictValues(d) == [n \in 1..Len(d) |-> d[n][2]]

\* the manager and the connections it is called with
Manager == [room_connections |-> room_connections, ws_state |-> ws_state]

\* the outcome of a call: the manager after it, what it raised, and the
\* connections send_text delivered the message to, in order
CallResult(m, exc, delivered) == [m |-> m, exc |-> exc, delivered |-> delivered]

\* websocket.accept(): an ASGI connection is accepted once, while connecting
accept(m, websocket) ==
    IF m.ws_state[websocket] = "connecting"
    THEN CallResult([m EXCEPT !.ws_state[websocket] = "connected"], "none", <<>>)
    ELSE CallResult(m, "RuntimeError", <<>>)

\* ConnectionManager.connect
ConnectionManager_connect(m, websocket, room_id, client_id) ==
    LET room == IF room_id = None THEN "default" ELSE room_id
        client == IF client_id = None THEN "0" ELSE client_id
    IN The({IF accepted.exc # "none" THEN accepted
            ELSE CallResult(
                     [accepted.m EXCEPT !.room_connections =
                         DictPut(@, room, DictPut(DictGet(@, room, <<>>), client, websocket))],
                     "none", <<>>)
            : accepted \in {accept(m, websocket)}})

\* disconnect that empties the room of the connection
C22_DisconnectRoom(m, websocket, room_id) ==
    LET room == DictGet(m.room_connections, room_id, <<>>)
    IN IF \A n \in 1..Len(room) : room[n][2] # websocket
       THEN CallResult(m, "none", <<>>)
       ELSE CallResult([m EXCEPT !.room_connections = DictPut(@, room_id, <<>>)],
                       "none", <<>>)

\* ConnectionManager.disconnect
ConnectionManager_disconnect(m, websocket, room_id) ==
    LET room == DictGet(m.room_connections, room_id, <<>>)
        found == {n \in 1..Len(room) : room[n][2] = websocket}
        client_id == room[CHOOSE n \in found : \A o \in found : n <= o][1]
    IN IF found = {} THEN CallResult(m, "none", <<>>)
       ELSE CallResult([m EXCEPT !.room_connections =
                            DictPut(@, room_id, DictPop(room, client_id))],
                       "none", <<>>)

\* "if client_id:" (line 61)
ClientIdGiven(client_id) == client_id # None /\ client_id # ""

\* await websocket.send_text(message) for each of websockets in turn, until
\* one raises: a connection that is not open cannot be sent to
RECURSIVE send_text_each(_, _, _)
send_text_each(m, websockets, delivered) ==
    IF websockets = <<>> THEN CallResult(m, "none", delivered)
    ELSE IF m.ws_state[Head(websockets)] # "connected"
    THEN CallResult(m, "RuntimeError", delivered)
    ELSE send_text_each(m, Tail(websockets), Append(delivered, Head(websockets)))

\* ConnectionManager.send_message
ConnectionManager_send_message(m, message, room_id, client_id) ==
    LET room == DictGet(m.room_connections, room_id, <<>>) IN
    IF ClientIdGiven(client_id)
    THEN IF DictHas(room, client_id)
         THEN send_text_each(m, <<DictGet(room, client_id, 0)>>, <<>>)
         ELSE CallResult(m, "none", <<>>)
    ELSE send_text_each(m, DictValues(room), <<>>)

\* the values of every room's dict, room after room
RECURSIVE AllValues(_)
AllValues(rooms) ==
    IF rooms = <<>> THEN <<>>
    ELSE DictValues(Head(rooms)[2]) \o AllValues(Tail(rooms))

\* ConnectionManager.broadcast_all
ConnectionManager_broadcast_all(m, message) ==
    send_text_each(m, AllValues(m.room_connections), <<>>)

\* the text of a message
Message == "msg"

\* the values a user function returns: a bare value, or a tuple (data, target)
\* whose target is a str, an int or a dict with client_id and room_id entries
\* (None for an entry the dict does not hold)
BareValue == [shape |-> "value", target |-> [t |-> "none", v |-> None, n |-> 0,
                                             client_id |-> None, room_id |-> None]]
Pair(target) == [shape |-> "pair", target |-> target]
StrTarget(v) == [t |-> "str", v |-> v, n |-> 0, client_id |-> None, room_id |-> None]
IntTarget(n) == [t |-> "int", v |-> None, n |-> n, client_id |-> None, room_id |-> None]
DictTarget(client_id, room_id) ==
    [t |-> "dict", v |-> None, n |-> 0, client_id |-> client_id, room_id |-> room_id]

\* str(target) of line 107, for a str and for an int of one digit
DecimalDigits == <<"0", "1", "2", "3", "4", "5", "6", "7", "8", "9">>
str_target(target) == IF target.t = "int" THEN DecimalDigits[target.n + 1] ELSE target.v

\* ConnectionManager.parse_and_send_message
ConnectionManager_parse_and_send_message(m, message) ==
    IF message.shape = "pair"
    THEN IF message.target.t \in {"str", "int"}
         THEN ConnectionManager_send_message(m, Message, "default",
                                             str_target(message.target))
         ELSE IF message.target.t = "dict"
         THEN IF ClientIdGiven(message.target.client_id)
                 /\ ClientIdGiven(message.target.room_id)
              THEN ConnectionManager_send_message(m, Message, message.target.room_id,
                                                  message.target.client_id)
              ELSE IF ClientIdGiven(message.target.room_id)
              THEN ConnectionManager_send_message(m, Message, message.target.room_id,
                                                  None)
              ELSE IF ClientIdGiven(message.target.client_id)
              THEN ConnectionManager_send_message(m, Message, "default",
                                                  message.target.client_id)
              ELSE CallResult(m, "none", <<>>)
         ELSE CallResult(m, "none", <<>>)
    ELSE ConnectionManager_broadcast_all(m, Message)

Connections == 1..MaxConnections
RoomIds == {"default", "room1"}
ClientIds == {"alice", "0", ""}

\* the values parse_and_send_message is called with
Messages ==
    {BareValue, Pair(IntTarget(0))}
        \cup {Pair(StrTarget(v)) : v \in RoomIds \cup ClientIds}
        \cup {Pair(DictTarget(k, r)) : k \in ClientIds \cup {None},
                                      r \in RoomIds \cup {None}}

ManagerInit ==
    /\ room_connections = <<>>
    /\ ws_state = [c \in Connections |-> "connecting"]
    /\ manager_call = [op |-> "init", exc |-> "none", delivered |-> <<>>]

\* no handler runs and no send loop is suspended
NoHandler == [ws_type |-> "none"]
NoIteration == [op |-> "none"]
TaskIdle ==
    /\ handler = NoHandler
    /\ peer = [frames |-> <<>>, sent |-> 0, closed |-> FALSE]
    /\ iteration = NoIteration

ManagerIdle ==
    /\ room_connections = <<>>
    /\ ws_state = <<>>
    /\ manager_call = [op |-> "init", exc |-> "none", delivered |-> <<>>]
    /\ TaskIdle

\* one call of connect
Connect ==
    \E websocket \in Connections, room_id \in RoomIds \cup {None},
       client_id \in ClientIds \cup {None} :
        \E r \in {ConnectionManager_connect(Manager, websocket, room_id, client_id)} :
            /\ room_connections' = r.m.room_connections
            /\ ws_state' = r.m.ws_state
            /\ manager_call' = [op |-> "connect", exc |-> r.exc, delivered |-> r.delivered]
            /\ UNCHANGED <<task_vars, split_vars, http_vars, sched_vars, ScheduledCell_counter,
                           compile_vars>>

\* one call of disconnect
Disconnect ==
    \E websocket \in Connections, room_id \in RoomIds \cup {None} :
        \E r \in {ConnectionManager_disconnect(Manager, websocket, room_id)} :
            /\ room_connections' = r.m.room_connections
            /\ manager_call' = [op |-> "disconnect", exc |-> r.exc, delivered |-> r.delivered]
            /\ UNCHANGED <<task_vars, ws_state, split_vars, http_vars, sched_vars,
                           ScheduledCell_counter, compile_vars>>

\* one call of send_message
SendMessage ==
    \E room_id \in RoomIds \cup {None}, client_id \in ClientIds \cup {None} :
        \E r \in {ConnectionManager_send_message(Manager, Message, room_id, client_id)} :
            /\ manager_call' = [op |-> "send_message", exc |-> r.exc,
                                delivered |-> r.delivered]
            /\ UNCHANGED <<task_vars, room_connections, ws_state, split_vars, http_vars, sched_vars,
                           ScheduledCell_counter, compile_vars>>

\* one call of broadcast_all
BroadcastAll ==
    \E r \in {ConnectionManager_broadcast_all(Manager, Message)} :
        /\ manager_call' = [op |-> "broadcast_all", exc |-> r.exc,
                            delivered |-> r.delivered]
        /\ UNCHANGED <<task_vars, room_connections, ws_state, split_vars, http_vars, sched_vars,
                       ScheduledCell_counter, compile_vars>>

\* one call of parse_and_send_message
ParseAndSendMessage ==
    \E message \in Messages :
        \E r \in {ConnectionManager_parse_and_send_message(Manager, message)} :
            /\ manager_call' = [op |-> "parse_and_send_message", exc |-> r.exc,
                                delivered |-> r.delivered]
            /\ UNCHANGED <<task_vars, room_connections, ws_state, split_vars, http_vars, sched_vars,
                           ScheduledCell_counter, compile_vars>>

\* the peer closes an open connection
ClientCloses ==
    \E websocket \in Connections :
        /\ ws_state[websocket] = "connected"
        /\ ws_state' = [ws_state EXCEPT ![websocket] = "closed"]
        /\ manager_call' = [op |-> "closed", exc |-> "none", delivered |-> <<>>]
        /\ UNCHANGED <<task_vars, room_connections, split_vars, http_vars, sched_vars,
                       ScheduledCell_counter, compile_vars>>

(***************************************************************************)
(* websocket_cell: the handlers WebSocketCell generates                    *)
(***************************************************************************)
\* the handler's own connection, the values its URL gives room_id and
\* client_id, and str(uuid.uuid4())
HandlerSocket == 1
UrlRoom == "room1"
UrlClient == "alice"
Uuid == "uuid4"

\* a handler before its first statement; asyncio says whether the generated
\* module binds the name asyncio (its preamble does not import it, a code
\* cell of the notebook may)
Handler(ws_type, message_schema, validate_message_schema, contains_room, contains_client, asyncio) ==
    [ws_type |-> ws_type, message_schema |-> message_schema,
     validate_message_schema |-> validate_message_schema,
     contains_room |-> contains_room, contains_client |-> contains_client,
     asyncio |-> asyncio, pc |-> "start", room_id |-> None, client_id |-> None,
     user_input |-> "default", yielded |-> 0, e |-> "none", escaped |-> "none",
     produced |-> 0, forwarded |-> 0, response |-> "unset"]

\* the three modes of _generate_code
Modes ==
    {<<"event", FALSE, TRUE>>, <<"stream", FALSE, TRUE>>,
     <<"stream", TRUE, TRUE>>, <<"stream", TRUE, FALSE>>}

\* the lines of the generated module import asyncio
ImportsAsyncio(output_lines) ==
    \E n \in 1..Len(output_lines) : output_lines[n] = "import asyncio"

\* the name asyncio in the generated module: bound by the preamble, or by a
\* code cell of the notebook that imports it
AsyncioBound == {ImportsAsyncio(Preamble), TRUE}

HandlerInit ==
    /\ handler \in {Handler(mode[1], mode[2], mode[3], contains_room,
                            contains_client, asyncio) :
                       mode \in Modes, contains_room \in BOOLEAN,
                       contains_client \in BOOLEAN, asyncio \in AsyncioBound}
    /\ peer = [frames |-> <<>>, sent |-> 0, closed |-> FALSE]
    /\ iteration = NoIteration
    /\ room_connections = <<>>
    /\ ws_state = [c \in Connections |-> "connecting"]
    /\ manager_call = [op |-> "init", exc |-> "none", delivered |-> <<>>]

\* what the handler's statements leave alone
HandlerFrame ==
    UNCHANGED <<iteration, split_vars, http_vars, sched_vars, ScheduledCell_counter,
                compile_vars>>

\* the handler's manager after a call
Managed(r, op) ==
    /\ room_connections' = r.m.room_connections
    /\ ws_state' = r.m.ws_state
    /\ manager_call' = [op |-> op, exc |-> r.exc, delivered |-> r.delivered]

\* "if response is not None: await manager.parse_and_send_message(response)"
\* for a bare value: the handler after it
Forwarded(h, r, pc) ==
    IF r.exc # "none" THEN [h EXCEPT !.pc = "except", !.e = r.exc]
    ELSE [h EXCEPT !.pc = pc, !.forwarded = @ + 1]

\* the assignments of room_id and client_id and "await manager.connect(...)",
\* which stands before the try
HandlerConnect ==
    /\ handler.ws_type # "none" /\ handler.pc = "start"
    /\ \E room_id \in {IF handler.contains_room THEN UrlRoom ELSE None},
          client_id \in {IF handler.contains_client THEN UrlClient ELSE Uuid} :
         \E r \in {ConnectionManager_connect(Manager, HandlerSocket, room_id, client_id)} :
           /\ Managed(r, "connect")
           /\ handler' = [handler EXCEPT
                  !.room_id = room_id, !.client_id = client_id,
                  !.escaped = r.exc,
                  !.pc = IF r.exc # "none" THEN "done"
                         ELSE IF handler.ws_type = "stream" /\ ~handler.message_schema
                         THEN "udf" ELSE "receive"]
    /\ UNCHANGED peer
    /\ HandlerFrame

\* what the user function of an event cell returns: None, a value that is
\* empty ('', [], {}, 0), any other value, or it raises
Responses == {"None", "empty", "value", "raise"}

\* "if response:", the test that lets only non-empty results through
C26_ResponseIsTruthy(response) == response = "value"

\* "if response is not None:" (line 153)
ResponseIsNotNone(response) == response # "None"

\* one turn of the event loop: receive_text, the user function, the response
EventReceive ==
    /\ handler.ws_type = "event" /\ handler.pc = "receive"
    /\ IF peer.frames # <<>>
       THEN /\ peer' = [peer EXCEPT !.frames = Tail(@)]
            /\ \E response \in Responses :
                 IF response = "raise"
                 THEN /\ handler' = [handler EXCEPT !.pc = "except", !.e = "UserError"]
                      /\ UNCHANGED manager_vars
                 ELSE IF ~ResponseIsNotNone(response)
                 THEN /\ handler' = [handler EXCEPT !.response = response]
                      /\ UNCHANGED manager_vars
                 ELSE \E r \in {ConnectionManager_parse_and_send_message(Manager,
                                                                         BareValue)} :
                        /\ Managed(r, "parse_and_send_message")
                        /\ handler' = Forwarded([handler EXCEPT !.response = response],
                                                r, "receive")
       ELSE /\ ws_state[HandlerSocket] # "connected"
            /\ handler' = [handler EXCEPT !.pc = "except", !.e = "WebSocketDisconnect"]
            /\ UNCHANGED <<peer, manager_vars>>
    /\ HandlerFrame

\* the try statement of _streaming_wrapper: wait_for(receive_text(), 1.0),
\* the validation of the frame, the two except clauses
StreamReceive ==
    /\ handler.ws_type = "stream" /\ handler.message_schema /\ handler.pc = "receive"
    /\ IF ~handler.asyncio
       THEN /\ handler' = [handler EXCEPT !.pc = "except", !.e = "NameError"]
            /\ UNCHANGED <<peer, manager_vars>>
       ELSE IF peer.frames # <<>>
       THEN /\ peer' = [peer EXCEPT !.frames = Tail(@)]
            /\ IF handler.validate_message_schema /\ Head(peer.frames) = "invalid"
               THEN \E r \in {ConnectionManager_send_message(
                                  Manager, Message, handler.room_id, handler.client_id)} :
                      /\ Managed(r, "validation_error")
                      /\ handler' = IF r.exc # "none"
                                    THEN [handler EXCEPT !.pc = "except", !.e = r.exc]
                                    ELSE handler
               ELSE /\ handler' = [handler EXCEPT !.pc = "udf", !.yielded = 0,
                                                  !.user_input = Head(peer.frames)]
                    /\ UNCHANGED manager_vars
       ELSE IF ws_state[HandlerSocket] # "connected"
       THEN /\ handler' = [handler EXCEPT !.pc = "except", !.e = "WebSocketDisconnect"]
            /\ UNCHANGED <<peer, manager_vars>>
       ELSE /\ handler' = [handler EXCEPT !.pc = "udf", !.yielded = 0]
            /\ UNCHANGED <<peer, manager_vars>>
    /\ HandlerFrame

\* "async for data in udf(...)": the user function yields its next item and
\* the handler forwards it, or it is exhausted, or it raises
StreamYield ==
    /\ handler.ws_type = "stream" /\ handler.pc = "udf"
    /\ handler.produced < MaxItems
    /\ \E outcome \in {"item", "raise"} :
         IF outcome = "raise"
         THEN /\ handler' = [handler EXCEPT !.pc = "except", !.e = "UserError"]
              /\ UNCHANGED manager_vars
         ELSE IF handler.yielded = MaxPerCall
         THEN /\ handler' = [handler EXCEPT
                     !.yielded = 0,
                     !.pc = IF handler.message_schema THEN "receive" ELSE "udf"]
              /\ UNCHANGED manager_vars
         ELSE \E r \in {ConnectionManager_parse_and_send_message(Manager, BareValue)} :
                /\ Managed(r, "parse_and_send_message")
                /\ handler' = Forwarded([handler EXCEPT !.produced = @ + 1,
                                                        !.yielded = @ + 1], r, "udf")
    /\ UNCHANGED peer
    /\ HandlerFrame

\* ConnectionManager.handle_error: send_text(message), then close(code)
ConnectionManager_handle_error(m, websocket) ==
    The({IF sent.exc # "none" THEN sent
         ELSE CallResult([m EXCEPT !.ws_state[websocket] = "closed"], "none",
                         sent.delivered)
         : sent \in {send_text_each(m, <<websocket>>, <<>>)}})

\* "except Exception as e: await manager.handle_error(websocket, e)"
HandleError ==
    /\ handler.ws_type # "none" /\ handler.pc = "except"
    /\ \E r \in {ConnectionManager_handle_error(Manager, HandlerSocket)} :
         /\ Managed(r, "handle_error")
         /\ handler' = [handler EXCEPT !.pc = "done", !.escaped = r.exc]
    /\ UNCHANGED peer
    /\ HandlerFrame

\* the client sends a frame that fits the message schema or does not
ClientSends ==
    /\ handler.ws_type # "none"
    /\ ws_state[HandlerSocket] = "connected"
    /\ peer.sent < MaxFrames
    /\ \E frame \in {"valid", "invalid"} :
         peer' = [peer EXCEPT !.frames = Append(@, frame), !.sent = @ + 1]
    /\ UNCHANGED <<handler, manager_vars>>
    /\ HandlerFrame

\* the client closes the connection
ClientHangsUp ==
    /\ handler.ws_type # "none"
    /\ ws_state[HandlerSocket] = "connected"
    /\ ws_state' = [ws_state EXCEPT ![HandlerSocket] = "closed"]
    /\ peer' = [peer EXCEPT !.closed = TRUE]
    /\ UNCHANGED <<handler, room_connections, manager_call>>
    /\ HandlerFrame

(***************************************************************************)
(* send_message's loop over a room, task by task                           *)
(***************************************************************************)
\* "for websocket in room.values(): await websocket.send_text(message)"
\* suspended in the send to websocket, the index-th connection the iterator
\* gave; used is the size the dict had when the iteration began, mapping the
\* dict at that time
Suspended(room_id, room, index, websocket, delivered) ==
    [op |-> "send_message", room_id |-> room_id, used |-> Len(room),
     mapping |-> room, index |-> index, websocket |-> websocket,
     delivered |-> delivered]

\* the connections the iterator can give next: the next entry of an unchanged
\* dict; any entry of a dict that changed and has its old size again
NextOf(room, it) ==
    IF room = it.mapping THEN {room[it.index + 1][2]}
    ELSE {room[n][2] : n \in 1..Len(room)}

InterleaveInit ==
    /\ room_connections = <<>>
    /\ ws_state = [c \in Connections |-> "connecting"]
    /\ manager_call = [op |-> "init", exc |-> "none", delivered |-> <<>>]
    /\ handler = NoHandler
    /\ peer = [frames |-> <<>>, sent |-> 0, closed |-> FALSE]
    /\ iteration = NoIteration

\* a task calls send_message(message, room_id) and reaches the first awaited
\* send_text of the loop over the room
SendBegin ==
    /\ iteration = NoIteration
    /\ \E room_id \in RoomIds :
         \E room \in {DictGet(room_connections, room_id, <<>>)} :
           /\ room # <<>>
           /\ iteration' = Suspended(room_id, room, 1, room[1][2], <<>>)
    /\ UNCHANGED <<handler, peer, manager_vars, split_vars, http_vars, sched_vars,
                   ScheduledCell_counter, compile_vars>>

\* the awaited send_text returns and the loop asks the dict's iterator for
\* the next connection: RuntimeError when the dict's size is no longer the
\* one the iteration began with, the end of the loop after the last entry
SendResume ==
    /\ iteration # NoIteration
    /\ \E room \in {DictGet(room_connections, iteration.room_id, <<>>)},
          delivered \in {Append(iteration.delivered, iteration.websocket)} :
         IF Len(room) # iteration.used
         THEN /\ iteration' = NoIteration
              /\ manager_call' = [op |-> "send_message", exc |-> "RuntimeError",
                                  delivered |-> delivered]
         ELSE IF iteration.index = iteration.used
         THEN /\ iteration' = NoIteration
              /\ manager_call' = [op |-> "send_message", exc |-> "none",
                                  delivered |-> delivered]
         ELSE /\ \E websocket \in NextOf(room, iteration) :
                   iteration' = [iteration EXCEPT !.index = @ + 1,
                                                  !.websocket = websocket,
                                                  !.delivered = delivered]
              /\ UNCHANGED manager_call
    /\ UNCHANGED <<handler, peer, room_connections, ws_state, split_vars, http_vars,
                   sched_vars, ScheduledCell_counter, compile_vars>>

(***************************************************************************)
(* the names of the compiled module                                        *)
(***************************************************************************)
\* the names a line of the preamble binds (parser.py lines 252-261)
BoundBy(line) ==
    CASE line = "from fastapi import APIRouter, HTTPException, WebSocket"
           -> {"APIRouter", "HTTPException", "WebSocket"}
      [] line = "from pydantic import BaseModel, ValidationError"
           -> {"BaseModel", "ValidationError"}
      [] line = "from scheduler import scheduler" -> {"scheduler"}
      [] line = "from typing import List, Dict, Optional, Union, Any, AsyncGenerator, Callable"
           -> {"List", "Dict", "Optional", "Union", "Any", "AsyncGenerator", "Callable"}
      [] line = "import uuid" -> {"uuid"}
      [] line = "import json" -> {"json"}
      [] line = "import asyncio" -> {"asyncio"}
      [] line = "from websocket_manager import manager" -> {"manager"}
      [] line = "router = APIRouter()" -> {"router"}
      [] OTHER -> {}

\* the names the preamble binds
PreambleNames == UNION {BoundBy(Preamble[n]) : n \in 1..Len(Preamble)}

\* the module names the code emitted for an HTTP cell refers to: the route
\* decorator, the two models, the field types, the except clauses
HttpReferences == {"router", "BaseModel", "Union", "Any", "HTTPException"}

\* the decorator of a Scheduled cell
ScheduledReferences == {"scheduler"}

\* the module names the code emitted for a WebSocket cell refers to, by mode
WebSocketReferences(h) ==
    {"router", "WebSocket", "manager"}
    \cup (IF h.contains_client THEN {} ELSE {"uuid"})
    \cup (IF h.ws_type = "stream" THEN {"Callable", "Any", "AsyncGenerator"} ELSE {})
    \cup (IF h.ws_type = "stream" /\ h.message_schema THEN {"asyncio"} ELSE {})
    \cup (IF h.ws_type = "stream" /\ h.message_schema /\ h.validate_message_schema
          THEN {"BaseModel", "Union", "Any", "ValidationError", "json"} ELSE {})

(***************************************************************************)
(* a second client of the same application                                 *)
(***************************************************************************)
\* the connection of another client, whose handler runs the same code
OtherSocket == HandlerSocket + 1
OtherUuid == "uuid4_other"

\* the other handler up to its "await manager.connect(websocket, room_id,
\* client_id)": the default room and an identity of its own
OtherConnects ==
    /\ handler.ws_type # "none"
    /\ ws_state[OtherSocket] = "connecting"
    /\ \E r \in {ConnectionManager_connect(Manager, OtherSocket, None, OtherUuid)} :
         Managed(r, "connect")
    /\ UNCHANGED <<handler, peer>>
    /\ HandlerFrame

\* the other client's connection fails and its handler ends: as the handler
\* of lines 302-307 never calls disconnect, the registry is left as it is
OtherFails ==
    /\ handler.ws_type # "none"
    /\ ws_state[OtherSocket] = "connected"
    /\ ws_state' = [ws_state EXCEPT ![OtherSocket] = "closed"]
    /\ manager_call' = [op |-> "closed", exc |-> "none", delivered |-> <<>>]
    /\ UNCHANGED <<handler, peer, room_connections>>
    /\ HandlerFrame

(***************************************************************************)
(* C2  send after connect and disconnect                                   *)
(***************************************************************************)
\* connect(c, r, k), disconnect(c, r) and send_message(msg, r, k) in a row
C2_Scenario(c, r, k) ==
    The({The({ConnectionManager_send_message(disconnected.m, Message, r, k)
              : disconnected \in {ConnectionManager_disconnect(connected.m, c, r)}})
         : connected \in {ConnectionManager_connect(Manager, c, r, k)}})

\* C2: in every reachable state, for every connection c that can connect, room
\* r and client id k, send_message(msg, r, k) after connect(c, r, k) and
\* disconnect(c, r) delivers to no connection and raises nothing
C2_SendAfterDisconnect ==
    \A c \in Connections, r \in RoomIds, k \in ClientIds :
        ws_state[c] = "connecting" =>
            /\ C2_Scenario(c, r, k).exc = "none"
            /\ C2_Scenario(c, r, k).delivered = <<>>

(***************************************************************************)
(* C3  one key for each stored connection                                  *)
(***************************************************************************)
\* the keys <<room, client>> a connection is stored under
C3_KeysOf(m, websocket) ==
    {key \in RoomIds \X ClientIds :
        DictGet(DictGet(m.room_connections, key[1], <<>>), key[2], 0) = websocket}

\* no connection is stored under two keys
C3_OneKey == \A c \in Connections : Cardinality(C3_KeysOf(Manager, c)) <= 1

\* a connect leaves every other stored and open connection stored
C3_ConnectKeepsTracked ==
    \A c \in Connections, r \in RoomIds \cup {None}, k \in ClientIds \cup {None} :
        \A after \in {ConnectionManager_connect(Manager, c, r, k).m} :
            \A other \in Connections \ {c} :
                (C3_KeysOf(Manager, other) # {} /\ ws_state[other] = "connected")
                    => C3_KeysOf(after, other) # {}

\* C3: in every reachable state no connection is stored under two keys, and
\* no connect drops a stored connection that is still open from the registry
C3_OneKeyAndTracked == C3_OneKey /\ C3_ConnectKeepsTracked

(***************************************************************************)
(* C20  the connections send_message delivers to                           *)
(***************************************************************************)
\* every connection registered in the room is open
C20_RoomOpen(room) == \A n \in 1..Len(room) : ws_state[room[n][2]] = "connected"

\* the connections the claim has send_message(message, r, k) deliver to
C20_Targets(room, k) ==
    IF k = None THEN DictValues(room)
    ELSE IF DictHas(room, k) THEN <<DictGet(room, k, 0)>>
    ELSE <<>>

\* send_message(message, r, k) delivers to the claim's targets and no other
C20_Delivers(r, k) ==
    \A room \in {DictGet(room_connections, r, <<>>)} :
        C20_RoomOpen(room) =>
            \A sent \in {ConnectionManager_send_message(Manager, Message, r, k)} :
                /\ sent.exc = "none"
                /\ sent.delivered = C20_Targets(room, k)

\* C20: in every reachable state, send_message(message, r, k) with a client id
\* k that connect accepts as a key delivers to the connection registered
\* under (r, k) alone, to none when there is none, and with no client id to
\* every connection registered in room r and no other
C20_UnicastOrRoom ==
    \A r \in RoomIds, k \in ClientIds \cup {None} : C20_Delivers(r, k)

\* the same for the client ids that are not empty
C20_NonEmptyClientId ==
    \A r \in RoomIds, k \in (ClientIds \ {""}) \cup {None} : C20_Delivers(r, k)

(***************************************************************************)
(* C19  the dispatch of parse_and_send_message                             *)
(***************************************************************************)
\* every registered connection is open
C19_AllOpen ==
    \A n \in 1..Len(room_connections) : C20_RoomOpen(room_connections[n][2])

\* the connections registered under the client id k, room after room
RECURSIVE C19_ClientsNamed(_, _)
C19_ClientsNamed(rooms, k) ==
    IF rooms = <<>> THEN <<>>
    ELSE C20_Targets(Head(rooms)[2], k) \o C19_ClientsNamed(Tail(rooms), k)

\* the connections the claim has the value delivered to
C19_Targets(message) ==
    IF message.shape = "value" THEN AllValues(room_connections)
    ELSE IF message.target.t = "str" /\ message.target.v \in ClientIds
    THEN C19_ClientsNamed(room_connections, message.target.v)
    ELSE IF message.target.t = "str" /\ message.target.v \in RoomIds
    THEN DictValues(DictGet(room_connections, message.target.v, <<>>))
    ELSE IF message.target.room_id = None
    THEN C19_ClientsNamed(room_connections, message.target.client_id)
    ELSE C20_Targets(DictGet(room_connections, message.target.room_id, <<>>),
                     message.target.client_id)

\* the values the claim speaks of: a bare value, a pair whose target is a
\* client id or a room id (as a str, or as the one entry of a dict), or an
\* object with both
C19_Shapes ==
    {BareValue}
        \cup {Pair(StrTarget(v)) : v \in RoomIds \cup (ClientIds \ {""})}
        \cup {Pair(DictTarget(k, None)) : k \in ClientIds \ {""}}
        \cup {Pair(DictTarget(k, r)) : k \in (ClientIds \ {""}) \cup {None},
                                      r \in RoomIds}

C19_Delivers(message) ==
    \A sent \in {ConnectionManager_parse_and_send_message(Manager, message)} :
        /\ sent.exc = "none"
        /\ sent.delivered = C19_Targets(message)

\* C19: in every reachable state with all registered connections open,
\* parse_and_send_message delivers a bare value to every connection of every
\* room, a pair targeted at a client id to the connections registered under
\* that id, a pair targeted at a room id to the connections of that room, a
\* pair targeted at an object with both to the connection under that room
\* and id, and to no other connection
C19_DispatchByShape ==
    C19_AllOpen => \A message \in C19_Shapes : C19_Delivers(message)

\* the part that holds: bare values and objects with a room id
C19_BareAndRoom ==
    C19_AllOpen =>
        \A message \in {BareValue}
                \cup {Pair(DictTarget(k, r)) : k \in (ClientIds \ {""}) \cup {None},
                                              r \in RoomIds} :
            C19_Delivers(message)

\* a client registered under an id in a room other than 'default' is not
\* reached by a pair targeted at that id
C19_ClientInRoom ==
    /\ room_connections = <<<<"room1", <<<<"alice", 1>>>>>>>>
    /\ ws_state[1] = "connected"
    /\ ConnectionManager_parse_and_send_message(Manager, Pair(StrTarget("alice"))).delivered
           = <<>>

(***************************************************************************)
(* C17  the error message for a frame that fails validation                *)
(***************************************************************************)
\* the step in which the handler takes a frame that fails validation from
\* its open connection
C17_InvalidFrame ==
    /\ handler.ws_type = "stream" /\ handler.message_schema
    /\ handler.validate_message_schema /\ handler.asyncio
    /\ handler.pc = "receive"
    /\ ws_state[HandlerSocket] = "connected"
    /\ peer.frames # <<>> /\ Head(peer.frames) = "invalid"
    /\ peer'.frames = Tail(peer.frames)

\* the error message reaches the handler's own connection and the loop is at
\* its next turn
C17_ErrorDelivered ==
    /\ manager_call'.op = "validation_error"
    /\ manager_call'.exc = "none"
    /\ manager_call'.delivered = <<HandlerSocket>>
    /\ handler'.pc = "receive"

\* C17: whenever a stream handler with a validated message schema receives a
\* frame that fails validation while its connection is open, the error
\* message is delivered to the handler's own connection, whether or not the
\* cell declares room_id and client_id, and the handler goes on to the next
\* turn of its loop
C17_ErrorToSameConnection == [][C17_InvalidFrame => C17_ErrorDelivered]_vars

\* the same for the cells that declare room_id
C17_DeclaredRoom ==
    [][(C17_InvalidFrame /\ handler.contains_room) => C17_ErrorDelivered]_vars

\* a handler whose cell declares no room_id answers an invalid frame to nobody
C17_DefaultRoom ==
    /\ manager_call.op = "validation_error"
    /\ ~handler.contains_room
    /\ room_connections = <<<<"default", <<<<handler.client_id, HandlerSocket>>>>>>>>
    /\ manager_call.delivered = <<>>

(***************************************************************************)
(* C18  failures of a running handler                                      *)
(***************************************************************************)
\* C18: in every mode, a failure raised while the handler runs is handed to
\* handle_error (the handler is at its except clause or past it), and no
\* exception escapes the handler
C18_NoEscape ==
    handler.ws_type # "none" =>
        /\ handler.e # "none" => handler.pc \in {"except", "done"}
        /\ handler.escaped = "none"

\* the same while the client has not closed the connection
C18_NoEscapeWhileOpen ==
    (handler.ws_type # "none" /\ ~peer.closed) =>
        /\ handler.e # "none" => handler.pc \in {"except", "done"}
        /\ handler.escaped = "none"

\* an event handler whose client hung up: receive_text raised, handle_error
\* was called and its send_text raised out of the handler
C18_HangUpEscapes ==
    /\ handler.ws_type = "event"
    /\ handler.pc = "done"
    /\ handler.e = "WebSocketDisconnect"
    /\ handler.escaped = "RuntimeError"

(***************************************************************************)
(* C16  a stream handler with a message schema and a silent client         *)
(***************************************************************************)
\* the client has sent a frame or hung up, or the user function has raised
C16_Disturbed == peer.sent > 0 \/ peer.closed \/ handler.e = "UserError"

\* C16: a stream handler with a message schema whose client never sends a
\* frame and never hangs up, and whose user function does not raise, does not
\* wait for a frame for ever: it eventually forwards every item the user
\* function produces
C16_SilentClientForwards ==
    (handler.ws_type = "stream" /\ handler.message_schema)
        => <>(handler.forwarded = MaxItems \/ C16_Disturbed)

\* the same in a module that binds the name asyncio
C16_ForwardsWithAsyncio ==
    (handler.ws_type = "stream" /\ handler.message_schema /\ handler.asyncio)
        => <>(handler.forwarded = MaxItems \/ C16_Disturbed)

\* the handler of a module without asyncio ended at its first wait_for
C16_NameError ==
    /\ handler.ws_type = "stream" /\ handler.message_schema
    /\ handler.pc = "done" /\ handler.e = "NameError"
    /\ handler.forwarded = 0
    /\ ~C16_Disturbed

(***************************************************************************)
(* C15  a room's mapping while a send loop is suspended                    *)
(***************************************************************************)
\* C15: while a send_message loop over a room is suspended in an awaited
\* send, the room's mapping is the one the loop began with, whatever the
\* other tasks do, and no loop ends because the mapping changed size
C15_Serialized ==
    /\ iteration # NoIteration
           => DictGet(room_connections, iteration.room_id, <<>>) = iteration.mapping
    /\ manager_call.exc # "RuntimeError"

\* a loop over a room of one client ended with RuntimeError after a second
\* client had connected to the room
C15_SizeChanged ==
    /\ iteration = NoIteration
    /\ manager_call = [op |-> "send_message", exc |-> "RuntimeError",
                       delivered |-> <<1>>]
    /\ Len(DictGet(room_connections, "room1", <<>>)) = 2

(***************************************************************************)
(* C21  connect's defaults                                                 *)
(***************************************************************************)
\* connect(c, r, None) and then connect(d, r, None)
C21_Scenario(c, d, r) ==
    The({ConnectionManager_connect(first.m, d, r, None)
         : first \in {ConnectionManager_connect(Manager, c, r, None)}})

\* the room a connect with room_id r registers in
C21_Room(r) == IF r = None THEN "default" ELSE r

\* the connection is stored in the room of the manager
C21_Stored(m, room, websocket) ==
    \E n \in 1..Len(DictGet(m.room_connections, room, <<>>)) :
        DictGet(m.room_connections, room, <<>>)[n][2] = websocket

\* C21: in every reachable state, for any two distinct connections that can
\* connect and any room (or none, which stands for "default"), after both
\* have connected to the room without a client id both are accepted and both
\* are stored in the room
C21_BothRegistered ==
    \A c, d \in Connections, r \in RoomIds \cup {None} :
        (c # d /\ ws_state[c] = "connecting" /\ ws_state[d] = "connecting") =>
            \A after \in {C21_Scenario(c, d, r)} :
                /\ after.exc = "none"
                /\ after.m.ws_state[c] = "connected"
                /\ after.m.ws_state[d] = "connected"
                /\ C21_Stored(after.m, C21_Room(r), c)
                /\ C21_Stored(after.m, C21_Room(r), d)

\* the part about one connection: it is accepted and stored in the room, or
\* in "default" when the room is omitted
C21_OneRegistered ==
    \A c \in Connections, r \in RoomIds \cup {None}, k \in ClientIds \cup {None} :
        ws_state[c] = "connecting" =>
            \A after \in {ConnectionManager_connect(Manager, c, r, k)} :
                /\ after.exc = "none"
                /\ after.m.ws_state[c] = "connected"
                /\ C21_Stored(after.m, C21_Room(r), c)

(***************************************************************************)
(* C22  disconnect removes one entry and nothing else                      *)
(***************************************************************************)
\* the entries of the registry: (room, client id, connection)
C22_Entries(m) ==
    UNION {{<<m.room_connections[n][1], m.room_connections[n][2][k][1],
              m.room_connections[n][2][k][2]>>
            : k \in 1..Len(m.room_connections[n][2])}
           : n \in 1..Len(m.room_connections)}

\* the rooms of the registry, in order
C22_Rooms(m) == [n \in 1..Len(m.room_connections) |-> m.room_connections[n][1]]

\* C22: in every reachable state, for every connection and every room id
\* (None is a room that does not exist), disconnect raises nothing, leaves
\* the connections as they are, removes the entry of that room that stores
\* the connection and leaves every other entry of every room unchanged;
\* when no entry of the room stores the connection the registry is unchanged
C22_RemovesOnlyThatEntry ==
    \A before \in {C22_Entries(Manager)} :
        \A c \in Connections, r \in RoomIds \cup {None} :
            \A after \in {ConnectionManager_disconnect(Manager, c, r)} :
                /\ after.exc = "none"
                /\ after.m.ws_state = ws_state
                /\ C22_Rooms(after.m) = C22_Rooms(Manager)
                /\ C22_Entries(after.m) = {e \in before : ~(e[1] = r /\ e[3] = c)}
                /\ (\A e \in before : ~(e[1] = r /\ e[3] = c)) =>
                       after.m.room_connections = room_connections

\* a disconnect has just removed the only client of a room (connect never
\* leaves a room empty) while another room keeps its client
C22_RemovedOne ==
    /\ manager_call.op = "disconnect"
    /\ \E n \in 1..Len(room_connections) : room_connections[n][2] = <<>>
    /\ C22_Entries(Manager) # {}

(***************************************************************************)
(* C23  the counter of synthesized names                                   *)
(***************************************************************************)
\* the renderings of run i of the process that carry a synthesized wrapper
C23_Synthesized(i) ==
    IF history[i].out.exc # "none" THEN {}
    ELSE {p \in 1..Len(history[i].out.value.cells) :
            /\ history[i].out.value.cells[p].cell = "ScheduledCell"
            /\ \E l \in 1..Len(history[i].out.value.cells[p].text) :
                   /\ history[i].out.value.cells[p].text[l].line = "def"
                   /\ history[i].out.value.cells[p].text[l].name.n >= 0}

\* the synthesized name of rendering p of run i
C23_Name(i, p) ==
    The({history[i].out.value.cells[p].text[l].name
         : l \in {k \in 1..Len(history[i].out.value.cells[p].text) :
                    history[i].out.value.cells[p].text[k].line = "def"}})

\* C23: in one process, over any number of compilations, the counter never
\* decreases from one compilation to the next and up to now, and any two
\* renderings that synthesized a wrapper, of one compilation or of two,
\* carry different names
C23_FreshNames ==
    /\ \A i \in DOMAIN history :
           /\ history[i].start >= 0
           /\ i < Len(history) => history[i].start <= history[i + 1].start
           /\ i = Len(history) => history[i].start <= ScheduledCell_counter
    /\ \A i, j \in DOMAIN history :
           \A p \in C23_Synthesized(i), q \in C23_Synthesized(j) :
               <<i, p>> # <<j, q>> => C23_Name(i, p) # C23_Name(j, q)

\* two compilations in one process, each with two synthesized wrappers
C23_TwoRuns ==
    /\ Len(history) >= 2
    /\ Cardinality(C23_Synthesized(1)) >= 2
    /\ Cardinality(C23_Synthesized(2)) >= 2

(***************************************************************************)
(* C24  a field without a type                                             *)
(***************************************************************************)
\* the cell's single field and the section that declares it ("" when the
\* cell is not a single-field cell)
C24_Single ==
    IF http_args.body.t = "list" /\ http_args.resp = PyNone /\ http_args.query = PyNone
       /\ Len(http_args.body.v) = 1
    THEN [section |-> "body", f |-> http_args.body.v[1]]
    ELSE IF http_args.resp.t = "list" /\ http_args.body = PyNone /\ http_args.query = PyNone
            /\ Len(http_args.resp.v) = 1
    THEN [section |-> "resp", f |-> http_args.resp.v[1]]
    ELSE IF http_args.query.t = "list" /\ http_args.body = PyNone /\ http_args.resp = PyNone
            /\ Len(http_args.query.v) = 1
    THEN [section |-> "query", f |-> http_args.query.v[1]]
    ELSE [section |-> "", f |-> <<>>]

\* a bare name: no colon, and not blank
C24_BareName(f) == ~Contains(f, ":") /\ strip(f) # <<>>

\* the rendering holds the field under its name with the type Any
C24_EmittedAsAny(section, f) ==
    /\ http_out.exc = "none"
    /\ \A parts \in {split(C5_Emitted(section), ":")} :
           /\ Len(parts) = 2
           /\ strip(parts[1]) = strip(f)
           /\ strip(parts[2]) = AnyType

\* C24: a rendered HTTP cell whose single field is a bare name, in body, resp
\* or query, raised nothing and emits the field with the type Any
C24_BareNameIsAny ==
    \A one \in {C24_Single} :
        (one.section # "" /\ C24_BareName(one.f) /\ http_out # Pending)
        => C24_EmittedAsAny(one.section, one.f)

\* the same statement for the two schema sections alone
C24_BareNameSchemaSections ==
    \A one \in {C24_Single} :
        (one.section \in {"body", "resp"} /\ C24_BareName(one.f) /\ http_out # Pending)
        => C24_EmittedAsAny(one.section, one.f)

(***************************************************************************)
(* C25  comma-joined field lists                                           *)
(***************************************************************************)
\* the metadata of a cell whose key holds the string s
C25_Found(key) == [YamlMapping(PyNone, PyNone, PyNone, "event") EXCEPT ![key] = PyStr(s)]

\* the declaration lines of the cell: the directive and the key's line
C25_HttpLines == <<GET \o <<" ">> \o UsersEndpoint, <<"k">>>>
C25_WsLines == <<WsDirective \o <<" ">> \o UsersEndpoint, <<"k">>>>

\* the field list the parsed cell holds for the key, blanks around each field
\* dropped; <<"?">> alone when no cell was built
C25_Fields(parsed, class, field) ==
    IF parsed.exc # "none" \/ parsed.value.class # class THEN <<<<"?">>>>
    ELSE [n \in 1..Len(parsed.value.obj[field]) |-> strip(parsed.value.obj[field][n])]

C25_HttpFields(key) ==
    C25_Fields(parse_http_cell(C25_HttpLines, C25_Found(key), FuncDef("f")),
               "HttpCell", key)

C25_WsFields(key) ==
    C25_Fields(parse_websocket_cell(C25_WsLines, C25_Found(key), FuncDef("f")),
               "WebSocketCell", IF key = "message" THEN "message_schema" ELSE key)

\* C25: a non-empty string with balanced brackets, given as the value of any
\* list-valued key of an HTTP cell (body, resp, query, headers) or of a
\* WebSocket cell (message, query, headers), becomes the list of its
\* top-level segments: a comma inside brackets splits nothing
C25_TopLevelAllKeys ==
    (split_result # Pending /\ Balanced(s) /\ s # <<>>) =>
        /\ \A key \in {"body", "resp", "query", "headers"} :
               C25_HttpFields(key) = TopLevelSegments(s)
        /\ \A key \in {"message", "query", "headers"} :
               C25_WsFields(key) = TopLevelSegments(s)

\* the same statement for the keys parse_http_cell and parse_websocket_cell
\* pass through split_types
C25_TopLevelSplitKeys ==
    (split_result # Pending /\ Balanced(s) /\ s # <<>>) =>
        /\ \A key \in {"body", "resp"} : C25_HttpFields(key) = TopLevelSegments(s)
        /\ \A key \in {"message", "query", "headers"} :
               C25_WsFields(key) = TopLevelSegments(s)

\* an HTTP query with a comma inside brackets is cut at that comma
C25_QueryCutInside ==
    /\ split_result # Pending /\ Balanced(s)
    /\ \E i \in 1..Len(s) : s[i] = "," /\ DepthAt(s, i) > 0
    /\ Len(C25_HttpFields("query")) > Len(TopLevelSegments(s))

(***************************************************************************)
(* C26  the loop of an event handler                                       *)
(***************************************************************************)
\* a step of an event handler that takes a frame from the connection
C26_Receives ==
    /\ handler.ws_type = "event"
    /\ peer.frames # <<>>
    /\ peer'.frames = Tail(peer.frames)

\* a step that routes a result through the manager: it was delivered, or
\* the manager raised
C26_Routes ==
    \/ handler'.forwarded = handler.forwarded + 1
    \/ /\ handler'.pc = "except" /\ handler.pc # "except"
       /\ handler'.e \notin {"UserError", "WebSocketDisconnect"}

\* the user function returned in this step
C26_Returned == ~(handler'.pc = "except" /\ handler'.e = "UserError")

\* the handler's connection is registered under the declared room and client
\* id, or under the default room and a generated identity
C26_Registered ==
    /\ handler.pc = "receive"
    /\ ws_state[HandlerSocket] # "connecting"
    /\ \A room \in {DictGet(room_connections,
                            IF handler.contains_room THEN UrlRoom ELSE "default", <<>>)} :
           /\ DictHas(room, IF handler.contains_client THEN UrlClient ELSE Uuid)
           /\ DictGet(room, IF handler.contains_client THEN UrlClient ELSE Uuid, 0)
                  = HandlerSocket

\* the loop with a test of the result left open
C26_Loop(routed) ==
    /\ C26_Receives =>
           /\ C26_Registered
           /\ Len(peer'.frames) = Len(peer.frames) - 1
           /\ C26_Routes <=> (C26_Returned /\ routed)
    /\ (handler.ws_type = "event" /\ C26_Routes) => C26_Receives

\* C26 as stated: every receive of an event handler finds the connection
\* registered, takes exactly one frame and routes the result of the user
\* function if and only if the result is non-empty, and nothing is routed
\* in a step that receives no frame
C26_RoutesNonEmpty == [][C26_Loop(handler'.response = "value")]_vars

\* C26 amended: the result is routed if and only if it is not None
C26_RoutesNotNone == [][C26_Loop(handler'.response # "None")]_vars

\* an event handler has routed an empty result
C26_EmptyRouted ==
    /\ handler.ws_type = "event"
    /\ handler.response = "empty"
    /\ handler.forwarded >= 1

(***************************************************************************)
(* C27  the decorator stands above one function definition                 *)
(***************************************************************************)
\* a rendering that registers a job: its first line is the decorator
C27_Decorated ==
    /\ sched_out # Pending /\ sched_out.exc = "none"
    /\ sched_out.value[1].line = "decorator"

\* the decorator, a synthesized wrapper, and the raw body one level deeper
C27_Wrapped ==
    /\ Len(sched_out.value) = 3
    /\ sched_out.value[2].line = "def"
    /\ sched_out.value[2].name = sched_out.value[1].name
    /\ sched_out.value[2].name.n >= 0
    /\ sched_out.value[3] = [line |-> "body", indent |-> 4, code |-> sched_cell.func_body]

\* the decorator and the function definition itself, at the decorator's level
C27_Unwrapped ==
    /\ Len(sched_out.value) = 2
    /\ sched_out.value[1].name = OwnName(sched_cell.func_body.name)
    /\ sched_out.value[2] = [line |-> "body", indent |-> 0, code |-> sched_cell.func_body]

\* C27: a rendering with a decorator puts it directly above a synthesized
\* wrapper that holds the raw body one level deeper when the body is not a
\* function definition, and directly above the body, with no indentation
\* added, when the body is a function definition
C27_DecoratorAboveDefinition ==
    C27_Decorated =>
        IF get_function_name_from_ast(sched_cell.func_body) = ""
        THEN C27_Wrapped ELSE C27_Unwrapped

\* the half of the statement about bodies that are not function definitions
C27_WrapperAboveBody ==
    (C27_Decorated /\ get_function_name_from_ast(sched_cell.func_body) = "")
        => C27_Wrapped

(***************************************************************************)
(* C28  the registry holds live connections only                           *)
(***************************************************************************)
\* the connections of all rooms, as in the loops of broadcast_all
C28_Stored ==
    {c \in Connections :
        \E n \in 1..Len(room_connections) :
            \E k \in 1..Len(room_connections[n][2]) : room_connections[n][2][k][2] = c}

\* C28: once the handler of a connection has ended, no entry of the registry
\* stores the connection, and a broadcast to all rooms raises nothing
C28_OnlyLiveConnections ==
    handler.pc = "done" =>
        /\ HandlerSocket \notin C28_Stored
        /\ ConnectionManager_broadcast_all(Manager, Message).exc = "none"

\* what holds instead: a handler that ended after it had registered its
\* connection leaves the entry where it is
C28_EntryOutlivesHandler ==
    (handler.pc = "done" /\ handler.escaped = "none" /\ handler.e # "none")
        => HandlerSocket \in C28_Stored

(***************************************************************************)
(* C29  a handler and the failure of another client's connection           *)
(***************************************************************************)
\* the handler's own connection is in order: its client has not closed it
C29_OwnConnectionSound == ~peer.closed

\* the handler has left its loop on a failed send
C29_SendFailed == handler.pc \in {"except", "done"} /\ handler.e = "RuntimeError"

\* C29: a handler whose own client has not closed the connection never
\* leaves its loop on a failed send, and its connection is never closed by
\* the server on account of one: a send that fails on the other client's
\* connection ends the other client's handler only
C29_Isolated ==
    C29_OwnConnectionSound => /\ ~C29_SendFailed
                              /\ (handler.e = "RuntimeError" =>
                                      ws_state[HandlerSocket] # "closed")

\* what happens instead: after the other client's connection has failed, a
\* result the handler routes ends the handler and closes its connection
C29_BroadcastEndsSender ==
    /\ ws_state[OtherSocket] = "closed"
    /\ C29_OwnConnectionSound
    /\ handler.pc = "done"
    /\ handler.e = "RuntimeError"
    /\ ws_state[HandlerSocket] = "closed"

(***************************************************************************)
(* C30  the compiled unit is self-contained                                *)
(***************************************************************************)
\* C30: whatever the mode of the WebSocket cell, every module name the code
\* of the WebSocket cell, of an HTTP cell and of a Scheduled cell refers to
\* is bound by the preamble
C30_SelfContained ==
    handler.ws_type # "none" =>
        (WebSocketReferences(handler) \cup HttpReferences \cup ScheduledReferences)
            \subseteq PreambleNames

\* what holds instead: asyncio is the one name the preamble leaves unbound
C30_AllButAsyncio ==
    handler.ws_type # "none" =>
        (WebSocketReferences(handler) \cup HttpReferences \cup ScheduledReferences)
            \ PreambleNames
          = (IF handler.ws_type = "stream" /\ handler.message_schema
             THEN {"asyncio"} ELSE {})

(***************************************************************************)
(* Specifications                                                          *)
(***************************************************************************)
SplitNext == CallSplitTypes
InitSplit == SplitInit /\ HttpIdle /\ SchedIdle /\ CompileIdle /\ ManagerIdle
SpecSplit == InitSplit /\ [][SplitNext]_vars

HttpNext == RenderHttpCell
InitHttp == HttpInit /\ SplitIdle /\ SchedIdle /\ CompileIdle /\ ManagerIdle
SpecHttp == InitHttp /\ [][HttpNext]_vars

SchedNext == ParseScheduledCell \/ RenderScheduledCell
InitSched == SchedInit /\ SplitIdle /\ HttpIdle /\ CompileIdle /\ ManagerIdle
SpecSched == InitSched /\ [][SchedNext]_vars

CompileNext == CompileNotebook \/ RestartProcess
ProcessNext == CompileNotebook
InitCompile == CompileInit /\ SplitIdle /\ HttpIdle /\ SchedIdle /\ ManagerIdle
SpecCompile == InitCompile /\ [][CompileNext]_vars

CellNext == CleanSource \/ ParseCell
InitCell == CellInit /\ SplitIdle /\ HttpIdle /\ SchedIdle /\ ManagerIdle
              /\ notebook = <<>> /\ parsed_cells = <<>> /\ sorted_cells = <<>>
              /\ history = <<>>
SpecCell == InitCell /\ [][CellNext]_vars

CleanNext == CleanSource
InitClean == CleanInit /\ SplitIdle /\ HttpIdle /\ SchedIdle /\ ManagerIdle
               /\ notebook = <<>> /\ parsed_cells = <<>> /\ sorted_cells = <<>>
               /\ history = <<>>
SpecClean == InitClean /\ [][CleanNext]_vars

HandlerStep == HandlerConnect \/ EventReceive \/ StreamReceive \/ StreamYield
                 \/ HandleError
HandlerNext == HandlerStep \/ ClientSends \/ ClientHangsUp
InitHandler == HandlerInit /\ SplitIdle /\ HttpIdle /\ SchedIdle /\ CompileIdle
SpecHandler == InitHandler /\ [][HandlerNext]_vars
\* every statement of the handler that can run does run: the event loop runs
\* the task, and the timer of wait_for ends a wait for a frame
SpecHandlerFair == SpecHandler /\ WF_vars(HandlerStep)

\* the tasks of the handlers run on one event loop and change hands at every
\* await: a connect or a disconnect of one task runs while the loop of
\* another is suspended
InterleaveNext == Connect \/ Disconnect \/ SendBegin \/ SendResume
InitInterleave == InterleaveInit /\ SplitIdle /\ HttpIdle /\ SchedIdle /\ CompileIdle
SpecInterleave == InitInterleave /\ [][InterleaveNext]_vars

ManagerNext == Connect \/ Disconnect \/ SendMessage \/ BroadcastAll
                 \/ ParseAndSendMessage \/ ClientCloses
InitManager == ManagerInit /\ TaskIdle /\ SplitIdle /\ HttpIdle /\ SchedIdle
                 /\ CompileIdle
SpecManager == InitManager /\ [][ManagerNext]_vars

\* the handler of one client next to the connection of another client of
\* the same application
HandlersNext == HandlerNext \/ OtherConnects \/ OtherFails
SpecHandlers == InitHandler /\ [][HandlersNext]_vars

\* compilations of one process: the class attribute is never re-initialised
SpecProcess == InitCompile /\ [][ProcessNext]_vars

=============================================================================
